---------------------------- MODULE Spec2Model ----------------------------
(***************************************************************************)
(* A model of the amqp-base resilience layer: AMQPConnector,               *)
(* AMQPChannelManager, AMQPConsumer, AMQPListener, AMQPTieredListener and  *)
(* AMQPPublishStream, each with the part of the AMQP client library        *)
(* (amqplib), of the broker and of the Node.js event loop (timers,         *)
(* setImmediate, promise continuations, streams) its code depends on.      *)
(*                                                                         *)
(* Every handler of the source is one action.  Shared conventions:         *)
(*   - object references are numbers, 0 is null;                           *)
(*   - a timer is a record [id, delay] in the set of pending timers; the   *)
(*     model keeps no clock, so a pending timer may fire at any moment;    *)
(*   - emitAsync appends to a FIFO of setImmediate callbacks, and the      *)
(*     Dispatch action of the component runs the oldest one.               *)
(***************************************************************************)
EXTENDS Naturals, Integers, Sequences, FiniteSets, TLC

VARIABLES
    \* ---- AMQPConnector (src/src/index.ts) ----
    state,            \* AMQPConnector._state
    conns,            \* every connection amqplib.connect() may hand out
    connectPending,   \* number of amqplib.connect() promises not yet settled
    timers,           \* pending setTimeout callbacks of the connector
    immediates,       \* pending setImmediate callbacks (emitAsync) of the connector
    emitted,          \* the event the connector emitted last
    serverURIs,       \* AMQPConnector._serverURIs
    attempts,         \* connection attempts begun so far, modulo the number of URIs
    \* ---- AMQPChannelManager (src/src/AMQPChannelManager.ts) ----
    manager,          \* the fields of the AMQPChannelManager; startThrew: a start() threw
    mgrConnection,    \* the connection the manager was constructed with
    channels,         \* every channel createChannel() may hand out
    createPending,    \* number of createChannel() promises not yet settled
    mgrTimers,        \* pending setTimeout callbacks of the manager
    mgrImmediates,    \* pending setImmediate callbacks (emitAsync) of the manager
    mgrEmitted,       \* the event the manager emitted last
    \* ---- AMQPConsumer (src/unnamed/part_012) ----
    consumer,         \* the fields of the AMQPConsumer
    prefetch,         \* options.consume.prefetch
    invocations,      \* every call of _startConsuming: its position and promise
    rpcs,             \* RPCs submitted on the channel and not yet answered, in order
    channelOpen,      \* the consumer's channel is open
    stopChain,        \* the promise chain of stopConsuming()
    consImmediates,   \* pending setImmediate callbacks (emitAsync) of the consumer
    delivered,        \* number of messages the channel has delivered
    consumeReturned,  \* promises returned by consume() before any stop or cancel
    undisturbed,      \* no stopConsuming(), server cancel or channel loss so far
    stopDone,         \* a stopConsuming() future resolved, no consume() since that call
    \* ---- AMQPListener (src/src/AMQPListener.ts) ----
    listener,         \* the fields of the AMQPListener
    listenPromises,   \* the state of every future listen() has returned
    subscribed,       \* listen() calls whose handlers are on the channel manager
    lconsumers,       \* every consumer a factory may build, by channel and factory
    allOf,            \* per channel: the listen() call whose channelCreated took it
    lastCreate,       \* the channel of the create event channelCreated took last
    stopCalls,        \* the state of every stopListening() call
    \* ---- AMQPTieredListener (src/unnamed/part_004) ----
    tiers,            \* the tiers argument of the constructor, after tiers.slice()
    circular,         \* options.routing.circular || false
    handlerFails,     \* options.messageHandler rejects every message
    tierQueues,       \* what each tier's consumer has declared on the broker
    tierMessages,     \* every message published to the nominal exchange
    \* ---- AMQPPublishStream (src/unnamed/part_013) ----
    writes,           \* every message written to the stream, and what became of it
    stream,           \* the Writable: its buffer, the write in progress, its error
    confirmChannel,   \* the ConfirmChannel: open or not, its unconfirmed publishes
    \* ---- EventEmitter of the emitter observed (src/src/index.ts 201-214) ----
    regs,             \* per handler: not registered, registered with on or with once
    calls             \* per handler: the arguments it was invoked with, in order

connVars == <<state, conns, connectPending, timers, immediates, emitted,
              serverURIs, attempts>>
mgrVars == <<manager, mgrConnection, channels, createPending, mgrTimers,
             mgrImmediates, mgrEmitted>>

consVars == <<consumer, prefetch, invocations, rpcs, channelOpen, stopChain,
              consImmediates, delivered, consumeReturned, undisturbed, stopDone>>

lisVars == <<listener, listenPromises, subscribed, lconsumers, allOf, lastCreate,
             stopCalls>>

tierVars == <<tiers, circular, handlerFails, tierQueues, tierMessages>>

pubVars == <<writes, stream, confirmChannel>>

emVars == <<regs, calls>>

vars == <<connVars, mgrVars, consVars, lisVars, tierVars, pubVars, emVars>>

----------------------------------------------------------------------------
(***************************************************************************)
(* Bounds of the model.                                                    *)
(***************************************************************************)
\* connections amqplib hands out to one connector during a run
MaxConnections == 2
\* setTimeout callbacks of one component pending at the same time
MaxTimers == 2
\* channels the connection hands out to one channel manager during a run
MaxChannels == 2
\* calls of _startConsuming on one consumer during a run
MaxInvocations == 2
\* messages the broker delivers to one consumer during a run
MaxMessages == 2
\* the largest options.consume.prefetch tried
MaxPrefetch == 1
\* the longest list of broker URIs given to a connector
MaxURIs == 3
\* handlers that register on the emitter observed during a run
MaxHandlers == 2
\* RPCs of another consumer pending on the shared channel at the same time
MaxOtherRpcs == 1

Null == 0
NullURI == "null"

\* The broker URIs given to the constructor in the examples.
ServerURIs == <<"amqp://A", "amqp://B">>

\* The broker URIs a list given to the constructor is made of, and the
\* lists tried: every list of one to MaxURIs of them, repetitions included.
URIs == {"amqp://A", "amqp://B"}
ServerURILists == UNION {[1..n -> URIs] : n \in 1..MaxURIs}

\* Delay of the reconnection after a dropped connection (ms).
ReconnectDelay == 1000
\* Delay of the retry after a failed connection attempt (ms).
ConnectRetryDelay == 5000
\* Delay of the re-creation after a dropped channel (ms).
RecreateDelay == 3000
\* Delay of the retry after a failed channel creation (ms).
CreateRetryDelay == 5000

Connections == 1..MaxConnections
Channels == 1..MaxChannels
Invocations == 1..MaxInvocations
Handlers == 1..MaxHandlers

\* options.exchanges and options.binds of the consumer: one exchange and one
\* binding, as in the repository's consumer test.
NumExchanges == 1
NumBinds == 1
TimerIds == 1..MaxTimers

----------------------------------------------------------------------------
(***************************************************************************)
(* Node.js primitives.                                                     *)
(***************************************************************************)
\* The id setTimeout gives the new timer: any id no pending timer holds.
\* (A Timeout object is fresh; the holder of an older one overwrites its
\* reference with the new one in every call site of the source.)
FreeTimerId(pending) ==
    CHOOSE t \in TimerIds :
        /\ \A p \in pending : p.id # t
        /\ \A u \in TimerIds : (u < t) => (\E p \in pending : p.id = u)

CanSetTimeout(pending) == Cardinality(pending) < MaxTimers

\* clearTimeout(handle): a null handle or one that fired already is ignored.
clearTimeout(pending, handle) == {p \in pending : p.id # handle}

\* AsyncEventEmitter.emitAsync: setImmediate(() => self.emit(eventName, arg)).
NoEvent == [event |-> "none", arg |-> 0]

\* An emitAsync whose callback is never scheduled.
emitAsyncLost(queue, eventName, arg) == queue

emitAsync(queue, eventName, arg) ==
    Append(queue, [event |-> eventName, arg |-> arg])

\* EventEmitter.emit, as the setImmediate callback calls it, seen by the
\* handlers of the event called eventName: every handler registered when
\* emit begins is invoked once with the argument, and a handler registered
\* with once is removed as it is invoked.
emit(r, c, eventName, ev) ==
    IF ev.event = eventName
    THEN [regs |-> [l \in Handlers |-> IF r[l] = "once" THEN "none" ELSE r[l]],
          calls |-> [l \in Handlers |->
                        IF r[l] # "none" THEN Append(c[l], ev.arg) ELSE c[l]]]
    ELSE [regs |-> r, calls |-> c]

\* No handler observed.
NoHandlers ==
    /\ regs = [l \in Handlers |-> "none"]
    /\ calls = [l \in Handlers |-> <<>>]

----------------------------------------------------------------------------
(***************************************************************************)
(* AMQPConnector                                                           *)
(***************************************************************************)
RECURSIVE indexOf(_, _, _)
\* Array.prototype.indexOf, 1-based; 0 stands for JavaScript's -1.
indexOf(list, x, from) ==
    IF from > Len(list) THEN 0
    ELSE IF list[from] = x THEN from
    ELSE indexOf(list, x, from + 1)

\* list[i] of JavaScript, 1-based: undefined, which is as falsy as null,
\* when the list has no such element.
ElementAt(list, i) == IF i \in DOMAIN list THEN list[i] ELSE NullURI

_selectServerURI(lastUsedURI) ==
    LET lastURIIndex == IF lastUsedURI # NullURI
                        THEN indexOf(serverURIs, lastUsedURI, 1) ELSE 0
    IN  IF lastURIIndex < 1 THEN ElementAt(serverURIs, 1)
        ELSE IF lastURIIndex < Len(serverURIs)
             THEN ElementAt(serverURIs, lastURIIndex + 1)
        ELSE ElementAt(serverURIs, 1)

\* The state of a connection object before amqplib.connect() resolved with it.
\*   status: unopened, open, closing (close() called), closed ('close' emitted)
\*   errored: 'error' was emitted
\*   connectionDropped, connectionDestroyed: the closure variables of
\*   _createConnection for this connection
NoConnection ==
    [status |-> "unopened", errored |-> FALSE,
     connectionDropped |-> FALSE, connectionDestroyed |-> FALSE]

\* The next connection object amqplib.connect() resolves with.
NextConnection == Cardinality({c \in Connections : conns[c].status # "unopened"}) + 1

\* _createConnection up to its await: s is the connector state the caller
\* leaves.  Sets state', connectPending' and attempts'.
_createConnection(s) ==
    IF ~s.started \/ s.connecting
    THEN /\ state' = s
         /\ UNCHANGED <<connectPending, attempts>>
    ELSE LET URI == _selectServerURI(s.lastUsedURI) IN
         /\ state' = [s EXCEPT !.lastUsedURI = URI, !.connecting = TRUE]
         /\ connectPending' = connectPending + 1
         /\ attempts' = IF serverURIs = <<>> THEN 0
                         ELSE (attempts + 1) % Len(serverURIs)

\* _createConnection after its await, amqplib.connect() having resolved.
ConnectResolved ==
    /\ connectPending > 0
    /\ NextConnection \in Connections
    /\ LET connection == NextConnection IN
       /\ connectPending' = connectPending - 1
       /\ conns' = [conns EXCEPT ![connection] = [NoConnection EXCEPT !.status = "open"]]
       /\ state' = [state EXCEPT !.connection = connection,
                                 !.connecting = FALSE,
                                 !.destroy = connection]
       /\ immediates' = emitAsync(immediates, "connect", connection)
    /\ UNCHANGED <<timers, emitted, serverURIs, attempts>>

\* A catch block that gives up: no retry is scheduled after a failed attempt.
ConnectRejectedGivesUp ==
    /\ connectPending > 0
    /\ connectPending' = connectPending - 1
    /\ state' = [state EXCEPT !.connecting = FALSE]
    /\ UNCHANGED <<conns, timers, immediates, emitted, serverURIs, attempts>>

\* _createConnection's catch block, amqplib.connect() having rejected.
ConnectRejected ==
    /\ connectPending > 0
    /\ CanSetTimeout(timers)
    /\ LET t == FreeTimerId(timers) IN
       /\ connectPending' = connectPending - 1
       /\ timers' = timers \cup {[id |-> t, delay |-> ConnectRetryDelay]}
       /\ state' = [state EXCEPT !.connecting = FALSE, !.reconnectTimeout = t]
    /\ UNCHANGED <<conns, immediates, emitted, serverURIs, attempts>>

\* handleConnectionEvent without its connectionDropped guard: every 'error'
\* and every 'close' emits a disconnect.
handleConnectionEventUnguarded(c, cs) ==
    /\ conns' = [cs EXCEPT ![c].connectionDropped = TRUE]
    /\ immediates' = emitAsync(immediates, "disconnect", c)
    /\ IF ~cs[c].connectionDestroyed /\ CanSetTimeout(timers)
       THEN LET t == FreeTimerId(timers) IN
            /\ timers' = timers \cup {[id |-> t, delay |-> ReconnectDelay]}
            /\ state' = [state EXCEPT !.connection = Null,
                                      !.reconnectTimeout = t]
       ELSE /\ timers' = timers
            /\ state' = [state EXCEPT !.connection = Null]
\* handleConnectionEvent of connection c; cs is the connection table after
\* the library's own change of c.
handleConnectionEvent(c, cs) ==
    IF cs[c].connectionDropped
    THEN /\ conns' = cs
         /\ UNCHANGED <<state, timers, immediates>>
    ELSE /\ conns' = [cs EXCEPT ![c].connectionDropped = TRUE]
         /\ immediates' = emitAsync(immediates, "disconnect", c)
         /\ IF ~cs[c].connectionDestroyed
            THEN LET t == FreeTimerId(timers) IN
                 /\ timers' = timers \cup {[id |-> t, delay |-> ReconnectDelay]}
                 /\ state' = [state EXCEPT !.connection = Null,
                                           !.reconnectTimeout = t]
            ELSE /\ timers' = timers
                 /\ state' = [state EXCEPT !.connection = Null]

\* handleConnectionEvent of connection c would call setTimeout.
SetsReconnectTimer(c) ==
    ~conns[c].connectionDropped /\ ~conns[c].connectionDestroyed

\* The library emits 'error' on a connection (at most once, before 'close').
ConnectionError(c) ==
    /\ conns[c].status \in {"open", "closing"}
    /\ ~conns[c].errored
    /\ SetsReconnectTimer(c) => CanSetTimeout(timers)
    /\ handleConnectionEvent(c, [conns EXCEPT ![c].errored = TRUE])
    /\ UNCHANGED <<connectPending, emitted, serverURIs, attempts>>

\* The library emits 'close' on a connection: the broker or the network
\* closed it, or the close() of destroyThisConnection completed.
ConnectionClose(c) ==
    /\ conns[c].status \in {"open", "closing"}
    /\ SetsReconnectTimer(c) => CanSetTimeout(timers)
    /\ handleConnectionEvent(c, [conns EXCEPT ![c].status = "closed"])
    /\ UNCHANGED <<connectPending, emitted, serverURIs, attempts>>

\* The callback of either setTimeout: self._createConnection().
ReconnectTimerFires(t) ==
    /\ t \in timers
    /\ timers' = timers \ {t}
    /\ _createConnection(state)
    /\ UNCHANGED <<conns, immediates, emitted, serverURIs>>

\* AMQPConnector.start(); a call on a started connector does nothing.
AMQPConnector_start ==
    /\ ~state.started
    /\ _createConnection([state EXCEPT !.started = TRUE])
    /\ UNCHANGED <<conns, timers, immediates, emitted, serverURIs>>

\* AMQPConnector.stop() with _destroyConnection; a call on a connector that
\* is not started does nothing.
AMQPConnector_stop ==
    /\ state.started
    /\ IF state.connection # Null
       THEN conns' = [conns EXCEPT ![state.destroy].status = "closing",
                                   ![state.destroy].connectionDestroyed = TRUE]
       ELSE conns' = conns
    /\ state' = [state EXCEPT !.started = FALSE, !.connection = Null]
    /\ timers' = clearTimeout(timers, state.reconnectTimeout)
    /\ UNCHANGED <<connectPending, immediates, emitted, serverURIs, attempts>>

\* The event loop runs the oldest setImmediate callback: self.emit(...).
ConnectorDispatch ==
    /\ immediates # <<>>
    /\ emitted' = Head(immediates)
    /\ immediates' = Tail(immediates)
    /\ UNCHANGED <<state, conns, connectPending, timers, serverURIs,
                   attempts>>

\* new AMQPConnector(uris)
NewConnector(uris) ==
    /\ serverURIs = uris
    /\ attempts = 0
    /\ state = [started |-> FALSE, connecting |-> FALSE, connection |-> Null,
                lastUsedURI |-> NullURI, reconnectTimeout |-> Null,
                destroy |-> Null]
    /\ conns = [c \in Connections |-> NoConnection]
    /\ connectPending = 0
    /\ timers = {}
    /\ immediates = <<>>
    /\ emitted = NoEvent

ConnectorInit == NewConnector(ServerURIs)

\* A connector constructed with any of the lists of URIs.
ConnectorInitAnyURIs == \E uris \in ServerURILists : NewConnector(uris)

\* new AMQPConnector([]): the constructor takes the empty list as it is.
ConnectorInitNoURIs == NewConnector(<<>>)

\* A step of the connector leaves the other components alone.
ConnectorOnly == UNCHANGED <<mgrVars, consVars, lisVars, tierVars, pubVars, emVars>>

ConnectorNext ==
    \/ AMQPConnector_start /\ ConnectorOnly
    \/ AMQPConnector_stop /\ ConnectorOnly
    \/ ConnectResolved /\ ConnectorOnly
    \/ ConnectRejected /\ ConnectorOnly
    \/ \E c \in Connections : ConnectionError(c) /\ ConnectorOnly
    \/ \E c \in Connections : ConnectionClose(c) /\ ConnectorOnly
    \/ \E t \in timers : ReconnectTimerFires(t) /\ ConnectorOnly
    \/ ConnectorDispatch /\ ConnectorOnly

\* The 'newListener' handler of the constructor, which EventEmitter runs
\* inside on() and once() before it adds the handler l of connect: the
\* handler is called with the connection on record, if there is one.
newListener(c, l) ==
    IF state.connection # Null
    THEN [c EXCEPT ![l] = Append(@, state.connection)]
    ELSE c

\* The handler of connect observed: it registers once, at any moment.
ConnectHandler == 1

\* connector.on('connect', l) and connector.once('connect', l), each handler
\* registering once.
ConnectorOn(l) ==
    /\ regs[l] = "none" /\ calls[l] = <<>>
    /\ regs' = [regs EXCEPT ![l] = "on"]
    /\ calls' = newListener(calls, l)
    /\ UNCHANGED connVars

ConnectorOnce(l) ==
    /\ regs[l] = "none" /\ calls[l] = <<>>
    /\ regs' = [regs EXCEPT ![l] = "once"]
    /\ calls' = newListener(calls, l)
    /\ UNCHANGED connVars

\* The setImmediate callback of emitAsync with handlers of connect.
ConnectDispatch ==
    /\ ConnectorDispatch
    /\ LET after == emit(regs, calls, "connect", Head(immediates)) IN
       /\ regs' = after.regs
       /\ calls' = after.calls

ConnectorAndEmitterOnly ==
    UNCHANGED <<mgrVars, consVars, lisVars, tierVars, pubVars>>

ConnectListenersNext ==
    \/ AMQPConnector_start /\ ConnectorOnly
    \/ AMQPConnector_stop /\ ConnectorOnly
    \/ ConnectResolved /\ ConnectorOnly
    \/ ConnectRejected /\ ConnectorOnly
    \/ \E c \in Connections : ConnectionError(c) /\ ConnectorOnly
    \/ \E c \in Connections : ConnectionClose(c) /\ ConnectorOnly
    \/ \E t \in timers : ReconnectTimerFires(t) /\ ConnectorOnly
    \/ ConnectDispatch /\ ConnectorAndEmitterOnly
    \/ ConnectorOn(ConnectHandler) /\ ConnectorAndEmitterOnly
    \/ ConnectorOnce(ConnectHandler) /\ ConnectorAndEmitterOnly

----------------------------------------------------------------------------
(***************************************************************************)
(* Properties of the AMQPConnector.                                        *)
(***************************************************************************)
\* A connection is live when amqplib.connect() resolved with it, close() was
\* not called on it and it emitted neither 'error' nor 'close'.
LiveConnection(c) == conns[c].status = "open" /\ ~conns[c].errored

\* This step makes emitAsync schedule the event eventName.
ConnectorSchedules(eventName) ==
    /\ Len(immediates') > Len(immediates)
    /\ immediates'[Len(immediates')].event = eventName

\* C1: in every reachable state at most one connection the connector opened
\* is live.
C1_AtMostOneLiveConnection ==
    Cardinality({c \in Connections : LiveConnection(c)}) <= 1

\* C3: while the connector is stopped (from a stop() until the next start())
\* no connection it opened is still open, and no step schedules a connect
\* event or begins a connection attempt.
C3_QuietAfterStop ==
    /\ [](~state.started => \A c \in Connections : conns[c].status # "open")
    /\ [][(~state.started /\ ~state'.started) =>
            /\ ~ConnectorSchedules("connect")
            /\ connectPending' <= connectPending]_vars

\* C4: the connect and disconnect events the connector emits alternate,
\* starting with connect, and every disconnect carries the connection of the
\* connect emitted just before it.
C4_ConnectDisconnectAlternate ==
    [][Len(immediates') < Len(immediates) =>
        LET e == Head(immediates) IN
        /\ (e.event = "connect") => (emitted.event \in {"none", "disconnect"})
        /\ (e.event = "disconnect") =>
               (emitted = [event |-> "connect", arg |-> e.arg])]_vars


\* This step makes emitAsync schedule the event eventName of connection c.
ConnectorSchedulesFor(eventName, c) ==
    /\ ConnectorSchedules(eventName)
    /\ immediates'[Len(immediates')].arg = c

\* The event eventName of connection c waits in the setImmediate queue.
ConnectorAwaits(eventName, c) ==
    \E i \in 1..Len(immediates) :
        immediates[i] = [event |-> eventName, arg |-> c]

\* Connection c has ended: close() was called on it, or it emitted 'error'
\* or 'close'.
ConnectionEnded(c) ==
    conns[c].status \in {"closing", "closed"} \/ conns[c].errored

\* C25: every connect(c) is followed by exactly one disconnect(c) and
\* preceded by none.  connect(c) is scheduled once, when the connection is
\* opened; disconnect(c) is scheduled once, at the first 'error' or 'close'
\* of c and never for a connection that was not opened, so that a later
\* 'error' or 'close' of c schedules nothing; the events are emitted in the
\* order they were scheduled; and a connection that ended, by stop() also,
\* has its disconnect emitted.
C25_OneDisconnectPerConnect ==
    /\ [][\A c \in Connections :
            /\ ConnectorSchedulesFor("connect", c) <=>
                  (conns[c].status = "unopened" /\ conns'[c].status # "unopened")
            /\ ConnectorSchedulesFor("disconnect", c) <=>
                  (~conns[c].connectionDropped /\ conns'[c].connectionDropped)
            /\ conns[c].connectionDropped => conns'[c].connectionDropped
            /\ conns'[c].connectionDropped => conns'[c].status # "unopened"
            /\ Len(immediates') <= Len(immediates) + 1]_vars
    /\ [](\A c \in Connections :
            /\ (conns[c].status = "closed" \/ conns[c].errored) =>
                   conns[c].connectionDropped
            /\ \A i, j \in 1..Len(immediates) :
                   (/\ immediates[i] = [event |-> "disconnect", arg |-> c]
                    /\ immediates[j] = [event |-> "connect", arg |-> c]) => j < i)
    /\ \A c \in Connections :
          ((ConnectionEnded(c) /\ ~conns[c].connectionDropped)
              \/ ConnectorAwaits("disconnect", c))
             ~> (emitted = [event |-> "disconnect", arg |-> c])

\* Connection 1 was closed by stop(), emitted 'error' and then 'close', and
\* its one disconnect has been emitted.
C25_Witness ==
    /\ conns[1].connectionDestroyed
    /\ conns[1].errored
    /\ conns[1].status = "closed"
    /\ conns[1].connectionDropped
    /\ ~ConnectorAwaits("disconnect", 1)
    /\ emitted = [event |-> "disconnect", arg |-> 1]

\* The timers this step scheduled.
ConnectorNewTimers == timers' \ timers

\* This step is a timer callback: a timer went away and it was not stop()
\* that cleared it.
ConnectorTimerFired ==
    /\ \E t \in timers : t \notin timers'
    /\ ~(state.started /\ ~state'.started)

\* This step begins a connection attempt.
ConnectionAttemptBegins == connectPending' = connectPending + 1

\* Connection c is in use: it was opened, it emitted neither 'error' nor
\* 'close' that the connector handled, and stop() did not close it.
ConnectionInUse(c) ==
    /\ conns[c].status # "unopened"
    /\ ~conns[c].connectionDropped
    /\ ~conns[c].connectionDestroyed

\* The connector is started and has neither a connection in use nor an
\* attempt in progress.
ConnectorIdle ==
    /\ state.started /\ ~state.connecting
    /\ \A c \in Connections : ~ConnectionInUse(c)

\* C26: a failed attempt schedules a retry after 5 s and a drop that stop()
\* did not cause schedules one after 1 s; a timer callback that finds the
\* connector started leaves an attempt in progress, a new one unless one was
\* in progress already, with no count of the retries made; a started
\* connector without connection and without attempt gets a new attempt; and
\* if the broker does not refuse for ever, a started connector without
\* connection gets a connect event emitted.
C26_RetriesWhileStarted ==
    /\ [][/\ (connectPending' < connectPending /\ conns' = conns) =>
                 (\E t \in ConnectorNewTimers : t.delay = ConnectRetryDelay)
          /\ \A c \in Connections :
                 (/\ ConnectorSchedulesFor("disconnect", c)
                  /\ ~conns'[c].connectionDestroyed) =>
                     (\E t \in ConnectorNewTimers : t.delay = ReconnectDelay)
          /\ (ConnectorTimerFired /\ state.started) =>
                 /\ state'.started /\ state'.connecting
                 /\ ~state.connecting => ConnectionAttemptBegins]_vars
    /\ [](ConnectorIdle => timers # {})
    /\ ConnectorIdle ~> (~state.started \/ state.connecting)
    /\ SF_vars(ConnectResolved /\ ConnectorOnly) =>
          ((/\ state.started
            /\ \A c \in Connections : ~ConnectionInUse(c)
            /\ NextConnection \in Connections)
              ~> (~state.started \/ emitted.event = "connect"))

\* Connection 1 was dropped without stop(), a later attempt of the started
\* connector was granted connection 2, and connect(2) has been emitted.
C26_Witness ==
    /\ state.started
    /\ conns[1].connectionDropped /\ ~conns[1].connectionDestroyed
    /\ state.connection = 2
    /\ conns[2].status = "open"
    /\ emitted = [event |-> "connect", arg |-> 2]
    /\ timers = {}

\* C29: the k-th connection attempt since construction (k = 0, 1, 2, ...)
\* uses the URI at index k mod N of the list of N URIs, whatever became of
\* the attempts before it.
C29_RoundRobin ==
    [][ConnectionAttemptBegins =>
          state'.lastUsedURI = serverURIs[attempts + 1]]_vars

\* C34: a connector constructed with an empty list of broker URIs makes
\* no connection attempt and starts no retry loop: no amqplib.connect() is
\* pending, no connection was handed out and no timer is armed.
C34_EmptyListNoAttempt ==
    serverURIs = <<>> =>
        /\ connectPending = 0
        /\ ~state.connecting
        /\ timers = {}
        /\ \A c \in Connections : conns[c].status = "unopened"

\* C37: state.connection is the live connection if there is one and null
\* otherwise, and an 'error' or 'close' of a connection other than the one
\* on record leaves the record alone.
C37_ConnectionFieldIsLive ==
    /\ [](\A c \in Connections : LiveConnection(c) => state.connection = c)
    /\ [](state.connection # Null => LiveConnection(state.connection))
    /\ [][\A c \in Connections :
             ((ConnectionError(c) \/ ConnectionClose(c))
                 /\ state.connection # Null /\ state.connection # c)
                => state'.connection = state.connection]_vars

\* The number of times handler l was invoked with connection c.
Notified(l, c) ==
    Cardinality({i \in DOMAIN calls[l] : calls[l][i] = c})

\* C36: a connect handler is invoked at most once with each connection,
\* and a handler that registers while a connection is on record is invoked
\* with it in the registration itself.
C36_NotifiedOncePerConnection ==
    /\ [](\A l \in Handlers : \A c \in Connections : Notified(l, c) <= 1)
    /\ [][\A l \in Handlers :
             ((ConnectorOn(l) \/ ConnectorOnce(l)) /\ state.connection # Null)
                 => calls'[l] = <<state.connection>>]_vars

----------------------------------------------------------------------------
(***************************************************************************)
(* AMQPChannelManager                                                      *)
(***************************************************************************)
\* The state of a channel object before createChannel() resolved with it.
\*   status: unopened, open, closing (close() called), closed ('close' emitted)
\*   errored: 'error' was emitted
\*   channelDropped, channelDestroyed: the closure variables of
\*   _createChannel for this channel
NoChannel ==
    [status |-> "unopened", errored |-> FALSE,
     channelDropped |-> FALSE, channelDestroyed |-> FALSE]

\* The next channel object createChannel() resolves with.
NextChannel == Cardinality({ch \in Channels : channels[ch].status # "unopened"}) + 1

\* The underlying connection has emitted neither 'error' nor 'close'.
ConnectionAlive == ~mgrConnection.errored /\ ~mgrConnection.closed

\* _createChannel up to its await: m is the manager the caller leaves.
\* Sets manager' and createPending'.
_createChannel(m) ==
    IF ~m.started \/ m.creatingChannel
    THEN /\ manager' = m
         /\ UNCHANGED createPending
    ELSE /\ manager' = [m EXCEPT !.creatingChannel = TRUE]
         /\ createPending' = createPending + 1

\* _createChannel after its await, the channel promise having resolved.
\* A dead connection grants no channel.
CreateResolved ==
    /\ createPending > 0
    /\ ConnectionAlive
    /\ NextChannel \in Channels
    /\ LET channel == NextChannel IN
       /\ createPending' = createPending - 1
       /\ channels' = [channels EXCEPT ![channel] = [NoChannel EXCEPT !.status = "open"]]
       /\ manager' = [manager EXCEPT !.channel = channel,
                                     !.creatingChannel = FALSE,
                                     !.destroy = channel]
       /\ mgrImmediates' = emitAsync(mgrImmediates, "create", channel)
    /\ UNCHANGED <<mgrConnection, mgrTimers, mgrEmitted>>

\* A catch block that gives up: no retry is scheduled after a failed
\* channel creation.
CreateRejectedGivesUp ==
    /\ createPending > 0
    /\ createPending' = createPending - 1
    /\ manager' = [manager EXCEPT !.creatingChannel = FALSE]
    /\ UNCHANGED <<mgrConnection, channels, mgrTimers, mgrImmediates, mgrEmitted>>
\* _createChannel's catch block, the channel promise having rejected.
CreateRejected ==
    /\ createPending > 0
    /\ CanSetTimeout(mgrTimers)
    /\ LET t == FreeTimerId(mgrTimers) IN
       /\ createPending' = createPending - 1
       /\ mgrTimers' = mgrTimers \cup {[id |-> t, delay |-> CreateRetryDelay]}
       /\ manager' = [manager EXCEPT !.creatingChannel = FALSE,
                                     !.recreateTimeout = t]
    /\ UNCHANGED <<mgrConnection, channels, mgrImmediates, mgrEmitted>>

\* handleChannelEvent of channel ch; chs is the channel table after the
\* library's own change of ch.
handleChannelEvent(ch, chs) ==
    IF chs[ch].channelDropped
    THEN /\ channels' = chs
         /\ UNCHANGED <<manager, mgrTimers, mgrImmediates>>
    ELSE /\ channels' = [chs EXCEPT ![ch].channelDropped = TRUE]
         /\ mgrImmediates' = emitAsync(mgrImmediates, "close", ch)
         /\ IF ~chs[ch].channelDestroyed
            THEN LET t == FreeTimerId(mgrTimers) IN
                 /\ mgrTimers' = mgrTimers \cup {[id |-> t, delay |-> RecreateDelay]}
                 /\ manager' = [manager EXCEPT !.channel = Null,
                                               !.recreateTimeout = t]
            ELSE /\ mgrTimers' = mgrTimers
                 /\ manager' = [manager EXCEPT !.channel = Null]

\* handleChannelEvent of channel ch would call setTimeout.
SetsRecreateTimer(ch) ==
    ~channels[ch].channelDropped /\ ~channels[ch].channelDestroyed

\* The library emits 'error' on a channel (at most once, before 'close').
ChannelError(ch) ==
    /\ channels[ch].status \in {"open", "closing"}
    /\ ~channels[ch].errored
    /\ SetsRecreateTimer(ch) => CanSetTimeout(mgrTimers)
    /\ handleChannelEvent(ch, [channels EXCEPT ![ch].errored = TRUE])
    /\ UNCHANGED <<mgrConnection, createPending, mgrEmitted>>

\* The library emits 'close' on a channel: the broker closed it, its
\* connection went away, or the close() of destroyChannel completed.
ChannelClose(ch) ==
    /\ channels[ch].status \in {"open", "closing"}
    /\ SetsRecreateTimer(ch) => CanSetTimeout(mgrTimers)
    /\ handleChannelEvent(ch, [channels EXCEPT ![ch].status = "closed"])
    /\ UNCHANGED <<mgrConnection, createPending, mgrEmitted>>

\* The callback of either setTimeout: self._createChannel().  The event loop
\* runs the setImmediate callbacks of an iteration before the timers of the
\* next one, so the events scheduled up to the setTimeout call have been
\* emitted when its callback runs seconds later.
RecreateTimerFires(t) ==
    /\ t \in mgrTimers
    /\ mgrImmediates = <<>>
    /\ mgrTimers' = mgrTimers \ {t}
    /\ _createChannel(manager)
    /\ UNCHANGED <<mgrConnection, channels, mgrImmediates, mgrEmitted>>

\* _destroyChannel on the manager m.  Sets manager', channels', mgrTimers'.
_destroyChannel(m) ==
    /\ IF m.channel # Null
       THEN channels' = [channels EXCEPT ![m.destroy].status = "closing"]
       ELSE channels' = channels
    /\ manager' = [m EXCEPT !.channel = Null]
    /\ mgrTimers' = clearTimeout(mgrTimers, m.recreateTimeout)

\* The connection emits 'error': the manager's once('error') listener.
ManagerConnectionError ==
    /\ ConnectionAlive
    /\ mgrConnection' = [mgrConnection EXCEPT !.errored = TRUE]
    /\ _destroyChannel([manager EXCEPT !.connectionClosed = TRUE])
    /\ UNCHANGED <<createPending, mgrImmediates, mgrEmitted>>

\* The connection emits 'close': the manager's once('close') listener.
ManagerConnectionClose ==
    /\ ~mgrConnection.closed
    /\ mgrConnection' = [mgrConnection EXCEPT !.closed = TRUE]
    /\ _destroyChannel([manager EXCEPT !.connectionClosed = TRUE])
    /\ UNCHANGED <<createPending, mgrImmediates, mgrEmitted>>

\* start() on a manager whose connection has emitted 'error' or 'close': the
\* call throws before it touches anything.
startThrows(m) == [m EXCEPT !.startThrew = TRUE]

\* AMQPChannelManager.start(): it throws on a closed connection; otherwise
\* a call on a started manager does nothing.
AMQPChannelManager_start ==
    /\ IF manager.connectionClosed
       THEN /\ manager' = startThrows(manager)
            /\ UNCHANGED createPending
       ELSE /\ ~manager.started
            /\ _createChannel([manager EXCEPT !.started = TRUE])
    /\ UNCHANGED <<mgrConnection, channels, mgrTimers, mgrImmediates, mgrEmitted>>

\* AMQPChannelManager.stop(); a call on a manager that is not started does
\* nothing.
AMQPChannelManager_stop ==
    /\ manager.started
    /\ _destroyChannel([manager EXCEPT !.started = FALSE])
    /\ UNCHANGED <<mgrConnection, createPending, mgrImmediates, mgrEmitted>>

\* The event loop runs the oldest setImmediate callback: self.emit(...).
ManagerDispatch ==
    /\ mgrImmediates # <<>>
    /\ mgrEmitted' = Head(mgrImmediates)
    /\ mgrImmediates' = Tail(mgrImmediates)
    /\ UNCHANGED <<manager, mgrConnection, channels, createPending, mgrTimers>>

ManagerInit ==
    /\ manager = [connectionClosed |-> FALSE, started |-> FALSE,
                  creatingChannel |-> FALSE, channel |-> Null,
                  destroy |-> Null, recreateTimeout |-> Null,
                  startThrew |-> FALSE]
    /\ mgrConnection = [errored |-> FALSE, closed |-> FALSE]
    /\ channels = [ch \in Channels |-> NoChannel]
    /\ createPending = 0
    /\ mgrTimers = {}
    /\ mgrImmediates = <<>>
    /\ mgrEmitted = NoEvent

\* A step of the manager leaves the other components alone.
ManagerOnly == UNCHANGED <<connVars, consVars, lisVars, tierVars, pubVars, emVars>>

ManagerNext ==
    \/ AMQPChannelManager_start /\ ManagerOnly
    \/ AMQPChannelManager_stop /\ ManagerOnly
    \/ CreateResolved /\ ManagerOnly
    \/ CreateRejected /\ ManagerOnly
    \/ \E ch \in Channels : ChannelError(ch) /\ ManagerOnly
    \/ \E ch \in Channels : ChannelClose(ch) /\ ManagerOnly
    \/ ManagerConnectionError /\ ManagerOnly
    \/ ManagerConnectionClose /\ ManagerOnly
    \/ \E t \in mgrTimers : RecreateTimerFires(t) /\ ManagerOnly
    \/ ManagerDispatch /\ ManagerOnly

----------------------------------------------------------------------------
(***************************************************************************)
(* Properties of the AMQPChannelManager.                                   *)
(***************************************************************************)
\* A channel is open when createChannel() resolved with it, close() was not
\* called on it and it emitted neither 'error' nor 'close'.
OpenChannel(ch) == channels[ch].status = "open" /\ ~channels[ch].errored

\* This step makes emitAsync schedule the event eventName.
ManagerSchedules(eventName) ==
    /\ Len(mgrImmediates') > Len(mgrImmediates)
    /\ mgrImmediates'[Len(mgrImmediates')].event = eventName

\* C2: in every reachable state at most one channel the manager opened is
\* open.
C2_AtMostOneOpenChannel ==
    Cardinality({ch \in Channels : OpenChannel(ch)}) <= 1

\* C5: the create and close events the manager emits alternate, starting
\* with create, and every close carries the channel of the create emitted
\* just before it.
C5_CreateCloseAlternate ==
    [][Len(mgrImmediates') < Len(mgrImmediates) =>
        LET e == Head(mgrImmediates) IN
        /\ (e.event = "create") => (mgrEmitted.event \in {"none", "close"})
        /\ (e.event = "close") =>
               (mgrEmitted = [event |-> "create", arg |-> e.arg])]_vars

\* C6: once the underlying connection has emitted error or close, no step
\* begins a channel-creation attempt and no retry timer is pending.
C6_TerminalAfterConnectionLoss ==
    /\ [](~ConnectionAlive => mgrTimers = {})
    /\ [][~ConnectionAlive => createPending' <= createPending]_vars

\* C7: while the manager is stopped (from a stop() until the next start())
\* no channel it opened is open and no retry timer is pending, and no step
\* schedules a create event or begins a channel-creation attempt.
C7_QuietAfterStop ==
    /\ [](~manager.started =>
            /\ \A ch \in Channels : channels[ch].status # "open"
            /\ mgrTimers = {})
    /\ [][(~manager.started /\ ~manager'.started) =>
            /\ ~ManagerSchedules("create")
            /\ createPending' <= createPending]_vars

\* This step makes emitAsync schedule the event eventName of channel ch.
ManagerSchedulesFor(eventName, ch) ==
    /\ ManagerSchedules(eventName)
    /\ mgrImmediates'[Len(mgrImmediates')].arg = ch

\* The event eventName of channel ch waits in the setImmediate queue.
ManagerAwaits(eventName, ch) ==
    \E i \in 1..Len(mgrImmediates) :
        mgrImmediates[i] = [event |-> eventName, arg |-> ch]

\* The timers this step scheduled.
ManagerNewTimers == mgrTimers' \ mgrTimers

\* This step is a timer callback: a timer went away and neither stop() nor
\* the connection's 'error' or 'close' cleared it.
ManagerTimerFired ==
    /\ \E t \in mgrTimers : t \notin mgrTimers'
    /\ ~(manager.started /\ ~manager'.started)
    /\ mgrConnection' = mgrConnection

\* This step begins a channel-creation attempt.
CreationAttemptBegins == createPending' = createPending + 1

\* Channel ch is in use: it was opened, close() was not called on it and it
\* emitted neither 'error' nor 'close'.
ChannelInUse(ch) ==
    channels[ch].status = "open" /\ ~channels[ch].channelDropped

\* The manager is started on a live connection and has neither a channel in
\* use, nor a channel that is closing, nor an attempt in progress.
ManagerIdle ==
    /\ manager.started /\ ~manager.creatingChannel /\ ConnectionAlive
    /\ \A ch \in Channels :
          ~ChannelInUse(ch) /\ channels[ch].status # "closing"

\* C27: the drop of a channel on which close() was not called schedules
\* the close event and a re-creation after 3 s, and a failed creation
\* schedules a retry after 5 s; a timer callback runs after the events
\* scheduled before it were emitted and, finding the manager started, leaves
\* an attempt in progress, a new one unless one was in progress already; a
\* close event that waits is emitted; a started manager on a live connection
\* without channel and without attempt gets a new attempt; and if the
\* connection does not refuse for ever, such a manager gets a create event
\* emitted.
C27_RecreatesWhileStarted ==
    /\ [][/\ (createPending' < createPending /\ channels' = channels) =>
                 (\E t \in ManagerNewTimers : t.delay = CreateRetryDelay)
          /\ \A ch \in Channels :
                 (/\ channels[ch].status = "open"
                  /\ ~channels[ch].channelDropped
                  /\ channels'[ch].status = "closed" \/ channels'[ch].errored) =>
                     /\ ManagerSchedulesFor("close", ch)
                     /\ \E t \in ManagerNewTimers : t.delay = RecreateDelay
          /\ (ManagerTimerFired /\ manager.started) =>
                 /\ mgrImmediates = <<>>
                 /\ manager'.started /\ manager'.creatingChannel
                 /\ ~manager.creatingChannel => CreationAttemptBegins]_vars
    /\ [](ManagerIdle => mgrTimers # {})
    /\ \A ch \in Channels :
          ManagerAwaits("close", ch)
             ~> (mgrEmitted = [event |-> "close", arg |-> ch])
    /\ ManagerIdle
          ~> (~manager.started \/ manager.creatingChannel \/ ~ConnectionAlive)
    /\ SF_vars(CreateResolved /\ ManagerOnly) =>
          ((/\ manager.started /\ ConnectionAlive
            /\ \A ch \in Channels : ~ChannelInUse(ch)
            /\ NextChannel \in Channels)
              ~> (\/ ~manager.started \/ ~ConnectionAlive
                  \/ mgrEmitted.event = "create"))

\* Channel 1 was dropped without stop(), a later attempt of the started
\* manager was granted channel 2 on the live connection, and create(2) has
\* been emitted after close(1).
C27_Witness ==
    /\ manager.started /\ ConnectionAlive
    /\ channels[1].channelDropped /\ channels[1].errored
    /\ manager.channel = 2
    /\ channels[2].status = "open"
    /\ mgrEmitted = [event |-> "create", arg |-> 2]
    /\ mgrTimers = {}

\* This step is a call of start() on a manager whose connection has emitted
\* 'error' or 'close'.
StartOnClosedConnection ==
    manager.connectionClosed /\ AMQPChannelManager_start

\* C28: start() after the connection's 'error' or 'close' throws and leaves
\* the manager not started, with no creation attempt begun and no timer
\* scheduled.
C28_StartThrowsNotStarted ==
    [][StartOnClosedConnection =>
          /\ manager'.startThrew
          /\ ~manager'.started
          /\ createPending' = createPending
          /\ mgrTimers' = mgrTimers]_vars

\* What start() does on such a manager: it throws and changes nothing, so the
\* manager is started after the call exactly if it was before; and no step
\* starts a manager whose connection has emitted 'error' or 'close'.
StartThrowsChangesNothing ==
    /\ [][StartOnClosedConnection =>
             /\ manager'.startThrew
             /\ manager' = [manager EXCEPT !.startThrew = TRUE]
             /\ createPending' = createPending
             /\ mgrTimers' = mgrTimers
             /\ channels' = channels
             /\ mgrImmediates' = mgrImmediates]_vars
    /\ [][(manager.connectionClosed /\ ~manager.started) =>
             ~manager'.started]_vars
    /\ [](manager.startThrew => manager.connectionClosed)

----------------------------------------------------------------------------
(***************************************************************************)
(* AMQPConsumer                                                            *)
(*                                                                         *)
(* The channel answers its RPCs in submission order (rpcs is a FIFO).  An  *)
(* invocation of _startConsuming is named by a number, which also names    *)
(* the promise it returns, the basic.consume subscription it requests and  *)
(* the consumer tag the broker gives that subscription.                    *)
(***************************************************************************)
\* An invocation of _startConsuming that has not been made.
\*   pc: unused, assertQueue, assertExchange, bindQueue (the await it is at),
\*       done (returned), failed (threw)
\*   awaiting: replies the await still waits for
\*   promise: none, pending, fulfilled, rejected
\*   subscription: none, requested (basic.consume submitted), live
\*       (consume-ok received), cancelled, dead (channel closed)
\*   cancels: basic.cancel RPCs submitted with the tag of this subscription
NoInvocation ==
    [pc |-> "unused", awaiting |-> 0, promise |-> "none", subscription |-> "none",
     cancels |-> 0]

\* No stopConsuming() chain is in progress.
\*   status: none, waiting (for the consume promise), cancelling (basic.cancel
\*       submitted)
\*   promise: the consume promise the chain was built on
\*   tag: currentConsumerTag
\*   superseded: consume() was called after the stopConsuming() call
NoChain == [status |-> "none", promise |-> Null, tag |-> Null, superseded |-> FALSE]

\* The value of _stopPromise while a chain is in progress.
StopPromise == 1

\* The next invocation of _startConsuming.
NextInvocation ==
    Cardinality({k \in Invocations : invocations[k].pc # "unused"}) + 1

\* n RPCs of one method, submitted by invocation k.
Rpcs(n, method, k) == [i \in 1..n |-> [method |-> method, ref |-> k]]

\* The stopConsuming() chain without its catch: a failing cancel leaves the
\* chain rejected and the final then, which clears _stopPromise, never runs.
ContinueStopUncaught(c, q, chain, outcome) ==
    IF outcome = "fulfilled" /\ chain.tag # Null /\ channelOpen
    THEN [consumer |-> c,
          rpcs |-> Append(q, [method |-> "cancel", ref |-> chain.tag]),
          chain |-> [chain EXCEPT !.status = "cancelling"],
          resolved |-> FALSE,
          cancelled |-> chain.tag]
    ELSE [consumer |-> c,
          rpcs |-> q,
          chain |-> [chain EXCEPT !.status = "rejected"],
          resolved |-> FALSE,
          cancelled |-> Null]

\* The rest of the stopConsuming() chain once the consume promise it was
\* built on has settled with outcome: cancelCurrentConsumer, the catch and
\* the final then.  channel.cancel() of a null tag or on a closed channel
\* fails without an RPC, and the catch swallows it.
\* c, q, chain: consumer, RPC queue and chain before; the result holds them
\* after, whether the stopConsuming() future has resolved, and the tag of
\* the basic.cancel submitted, if any.
ContinueStop(c, q, chain, outcome) ==
    IF outcome = "fulfilled" /\ chain.tag # Null /\ channelOpen
    THEN [consumer |-> c,
          rpcs |-> Append(q, [method |-> "cancel", ref |-> chain.tag]),
          chain |-> [chain EXCEPT !.status = "cancelling"],
          resolved |-> FALSE,
          cancelled |-> chain.tag]
    ELSE [consumer |-> [c EXCEPT !.stopPromise = Null],
          rpcs |-> q,
          chain |-> NoChain,
          resolved |-> TRUE,
          cancelled |-> Null]

\* The invocations after a basic.cancel with that tag was submitted, or none.
CancelSubmitted(invs, tag) ==
    IF tag = Null THEN invs ELSE [invs EXCEPT ![tag].cancels = @ + 1]

\* stopDone after a step in which the chain's future resolved or not.
StopDoneAfter(chain, resolved) ==
    IF resolved /\ ~chain.superseded THEN TRUE ELSE stopDone

\* consume(), with _startConsuming up to its first await, as any caller
\* sees it.
consume ==
    /\ IF ~consumer.started
       THEN /\ NextInvocation \in Invocations
            /\ LET k == NextInvocation IN
               /\ consumer' = [consumer EXCEPT !.consumePromise = k]
               /\ IF channelOpen
                  THEN /\ rpcs' = Append(rpcs, [method |-> "assertQueue", ref |-> k])
                       /\ invocations' = [invocations EXCEPT ![k] =
                              [NoInvocation EXCEPT !.pc = "assertQueue",
                                                   !.awaiting = 1,
                                                   !.promise = "pending"]]
                  ELSE /\ rpcs' = rpcs
                       /\ invocations' = [invocations EXCEPT ![k] =
                              [NoInvocation EXCEPT !.pc = "failed",
                                                   !.promise = "rejected"]]
               /\ consumeReturned' =
                      IF undisturbed THEN consumeReturned \cup {k} ELSE consumeReturned
       ELSE /\ consumeReturned' =
                      IF undisturbed THEN consumeReturned \cup {consumer.consumePromise}
                      ELSE consumeReturned
            /\ UNCHANGED <<consumer, rpcs, invocations>>
    /\ stopDone' = FALSE
    /\ stopChain' = IF stopChain.status # "none"
                    THEN [stopChain EXCEPT !.superseded = TRUE] ELSE stopChain
    /\ UNCHANGED <<prefetch, channelOpen, delivered, undisturbed>>

\* AMQPConsumer.consume(), called by the owner of the consumer.
AMQPConsumer_consume == consume /\ UNCHANGED consImmediates

\* The reply to assertQueue: _startConsuming goes on to assert the exchanges.
AssertQueueOk ==
    /\ rpcs # <<>> /\ Head(rpcs).method = "assertQueue"
    /\ LET k == Head(rpcs).ref IN
       /\ invocations' = [invocations EXCEPT ![k].pc = "assertExchange",
                                             ![k].awaiting = NumExchanges]
       /\ rpcs' = Tail(rpcs) \o Rpcs(NumExchanges, "assertExchange", k)
    /\ UNCHANGED <<consumer, prefetch, channelOpen, stopChain, consImmediates,
                   delivered, consumeReturned, undisturbed, stopDone>>

\* A reply to assertExchange: after the last one _startConsuming goes on to
\* bind the queue.
AssertExchangeOk ==
    /\ rpcs # <<>> /\ Head(rpcs).method = "assertExchange"
    /\ LET k == Head(rpcs).ref IN
       IF invocations[k].awaiting > 1
       THEN /\ invocations' = [invocations EXCEPT ![k].awaiting = @ - 1]
            /\ rpcs' = Tail(rpcs)
       ELSE /\ invocations' = [invocations EXCEPT ![k].pc = "bindQueue",
                                                  ![k].awaiting = NumBinds]
            /\ rpcs' = Tail(rpcs) \o Rpcs(NumBinds, "bindQueue", k)
    /\ UNCHANGED <<consumer, prefetch, channelOpen, stopChain, consImmediates,
                   delivered, consumeReturned, undisturbed, stopDone>>

\* basic.consume submitted first, the prefetch after it.
consumptionPromisesConsumeFirst(k) ==
    Rpcs(1, "consume", k) \o Rpcs(IF prefetch > 0 THEN 1 ELSE 0, "prefetch", k)

\* The RPCs invocation k submits for its consumptionPromises, in the order
\* of the calls: channel.prefetch() if the option is set (truthy), then
\* channel.consume(), in one synchronous stretch.
consumptionPromises(k) ==
    Rpcs(IF prefetch > 0 THEN 1 ELSE 0, "prefetch", k) \o Rpcs(1, "consume", k)

\* A reply to bindQueue: after the last one _startConsuming submits prefetch
\* (if set) and consume, sets _started and returns, which fulfils its
\* promise; a stopConsuming() chain waiting for that promise goes on.
BindQueueOk ==
    /\ rpcs # <<>> /\ Head(rpcs).method = "bindQueue"
    /\ LET k == Head(rpcs).ref IN
       IF invocations[k].awaiting > 1
       THEN /\ invocations' = [invocations EXCEPT ![k].awaiting = @ - 1]
            /\ rpcs' = Tail(rpcs)
            /\ UNCHANGED <<consumer, stopChain, stopDone>>
       ELSE LET submitted == Tail(rpcs) \o consumptionPromises(k)
                started == [consumer EXCEPT !.started = TRUE]
                after == IF stopChain.status = "waiting" /\ stopChain.promise = k
                         THEN ContinueStop(started, submitted, stopChain, "fulfilled")
                         ELSE [consumer |-> started, rpcs |-> submitted,
                               chain |-> stopChain, resolved |-> FALSE,
                               cancelled |-> Null]
            IN  /\ invocations' = CancelSubmitted(
                       [invocations EXCEPT ![k].pc = "done",
                                           ![k].awaiting = 0,
                                           ![k].promise = "fulfilled",
                                           ![k].subscription = "requested"],
                       after.cancelled)
                /\ consumer' = after.consumer
                /\ rpcs' = after.rpcs
                /\ stopChain' = after.chain
                /\ stopDone' = StopDoneAfter(stopChain, after.resolved)
    /\ UNCHANGED <<prefetch, channelOpen, consImmediates, delivered,
                   consumeReturned, undisturbed>>

\* The reply to prefetch, which nothing waits for.
PrefetchOk ==
    /\ rpcs # <<>> /\ Head(rpcs).method = "prefetch"
    /\ rpcs' = Tail(rpcs)
    /\ UNCHANGED <<consumer, prefetch, invocations, channelOpen, stopChain,
                   consImmediates, delivered, consumeReturned, undisturbed, stopDone>>

\* The reply to consume: the subscription is live and its tag is stored.
ConsumeOk ==
    /\ rpcs # <<>> /\ Head(rpcs).method = "consume"
    /\ LET k == Head(rpcs).ref IN
       /\ invocations' = [invocations EXCEPT ![k].subscription = "live"]
       /\ consumer' = [consumer EXCEPT !.consumerTag = k]
    /\ rpcs' = Tail(rpcs)
    /\ UNCHANGED <<prefetch, channelOpen, stopChain, consImmediates, delivered,
                   consumeReturned, undisturbed, stopDone>>

\* The reply to cancel: the broker has ended the subscription of that tag (if
\* it still had one), and the stopConsuming() chain clears _stopPromise.
CancelOk ==
    /\ rpcs # <<>> /\ Head(rpcs).method = "cancel"
    /\ LET tag == Head(rpcs).ref IN
       invocations' = [invocations EXCEPT ![tag].subscription =
                           IF @ = "live" THEN "cancelled" ELSE @]
    /\ rpcs' = Tail(rpcs)
    /\ consumer' = [consumer EXCEPT !.stopPromise = Null]
    /\ stopChain' = NoChain
    /\ stopDone' = StopDoneAfter(stopChain, TRUE)
    /\ UNCHANGED <<prefetch, channelOpen, consImmediates, delivered,
                   consumeReturned, undisturbed>>

\* The channel closes (a failed declaration, a broker error, a lost
\* connection): every RPC not yet answered rejects, every subscription ends.
\* An invocation at an await throws; a stopConsuming() chain swallows the
\* rejection it gets and clears _stopPromise.
ConsumerChannelCloses ==
    /\ channelOpen
    /\ channelOpen' = FALSE
    /\ rpcs' = <<>>
    /\ invocations' = [k \in Invocations |->
           IF invocations[k].pc \in {"assertQueue", "assertExchange", "bindQueue"}
           THEN [invocations[k] EXCEPT !.pc = "failed", !.awaiting = 0,
                                       !.promise = "rejected"]
           ELSE IF invocations[k].subscription \in {"requested", "live"}
           THEN [invocations[k] EXCEPT !.subscription = "dead"]
           ELSE invocations[k]]
    /\ consumer' = [consumer EXCEPT !.stopPromise = Null]
    /\ stopChain' = NoChain
    /\ stopDone' = StopDoneAfter(stopChain, stopChain.status # "none")
    /\ undisturbed' = FALSE
    /\ UNCHANGED <<prefetch, consImmediates, delivered, consumeReturned>>

\* AMQPConsumer.stopConsuming().
AMQPConsumer_stopConsuming ==
    /\ LET currentConsumerTag == consumer.consumerTag IN
       IF ~consumer.started \/ consumer.stopPromise # Null
              \/ consumer.consumePromise = Null
       THEN \* returns _stopPromise, or a promise that is resolved already
            /\ stopDone' = IF consumer.stopPromise = Null THEN TRUE ELSE stopDone
            /\ UNCHANGED <<consumer, rpcs, stopChain, invocations>>
       ELSE LET k == consumer.consumePromise
                stopping == [consumer EXCEPT !.started = FALSE,
                                             !.stopPromise = StopPromise,
                                             !.consumePromise = Null]
                chain == [status |-> "waiting", promise |-> k,
                          tag |-> currentConsumerTag, superseded |-> FALSE]
                after == IF invocations[k].promise = "pending"
                         THEN [consumer |-> stopping, rpcs |-> rpcs,
                               chain |-> chain, resolved |-> FALSE,
                               cancelled |-> Null]
                         ELSE ContinueStop(stopping, rpcs, chain,
                                           invocations[k].promise)
            IN  /\ consumer' = after.consumer
                /\ rpcs' = after.rpcs
                /\ stopChain' = after.chain
                /\ stopDone' = StopDoneAfter(chain, after.resolved)
                /\ invocations' = CancelSubmitted(invocations, after.cancelled)
    /\ undisturbed' = FALSE
    /\ UNCHANGED <<prefetch, channelOpen, consImmediates, delivered,
                   consumeReturned>>

\* handleMessage with a message of the live subscription s.
Deliver(s) ==
    /\ channelOpen
    /\ invocations[s].subscription = "live"
    /\ delivered < MaxMessages
    /\ delivered' = delivered + 1
    /\ consImmediates' = emitAsync(consImmediates, "message", s)
    /\ UNCHANGED <<consumer, prefetch, invocations, rpcs, channelOpen, stopChain,
                   consumeReturned, undisturbed, stopDone>>

\* handleMessage with null: the broker cancelled the live subscription s.
ServerCancel(s) ==
    /\ channelOpen
    /\ invocations[s].subscription = "live"
    /\ invocations' = [invocations EXCEPT ![s].subscription = "cancelled"]
    /\ consumer' = [consumer EXCEPT !.started = FALSE, !.consumePromise = Null]
    /\ consImmediates' = emitAsync(consImmediates, "cancel", s)
    /\ undisturbed' = FALSE
    /\ UNCHANGED <<prefetch, rpcs, channelOpen, stopChain, delivered,
                   consumeReturned, stopDone>>

\* The event loop runs the oldest setImmediate callback: self.emit(...).
ConsumerDispatch ==
    /\ consImmediates # <<>>
    /\ consImmediates' = Tail(consImmediates)
    /\ UNCHANGED <<consumer, prefetch, invocations, rpcs, channelOpen, stopChain,
                   delivered, consumeReturned, undisturbed, stopDone>>

\* A handler that reinstates the consumer whether it is stopping or not.
neverStopping == FALSE

\* AMQPConsumer.isStopping().
isStopping == consumer.stopPromise # Null

\* channelCreated of the AMQPListener calls consume() on the consumer it has
\* just built.
ListenerConsumes ==
    /\ NextInvocation = 1
    /\ AMQPConsumer_consume

\* The event loop runs the oldest setImmediate callback of a consumer that
\* an AMQPListener built: a cancel event reaches the listener's handler,
\* which calls consume() unless the consumer is stopping.
ListenedDispatch ==
    /\ consImmediates # <<>>
    /\ consImmediates' = Tail(consImmediates)
    /\ IF Head(consImmediates).event = "cancel" /\ ~isStopping
       THEN consume
       ELSE UNCHANGED <<consumer, prefetch, invocations, rpcs, channelOpen,
                        stopChain, delivered, consumeReturned, undisturbed,
                        stopDone>>

ConsumerInit ==
    /\ consumer = [consumerTag |-> Null, started |-> FALSE,
                   consumePromise |-> Null, stopPromise |-> Null]
    /\ prefetch \in 0..MaxPrefetch
    /\ invocations = [k \in Invocations |-> NoInvocation]
    /\ rpcs = <<>>
    /\ channelOpen = TRUE
    /\ stopChain = NoChain
    /\ consImmediates = <<>>
    /\ delivered = 0
    /\ consumeReturned = {}
    /\ undisturbed = TRUE
    /\ stopDone = FALSE

\* A step of the consumer leaves the other components alone.
ConsumerOnly == UNCHANGED <<connVars, mgrVars, lisVars, tierVars, pubVars, emVars>>

ConsumerNext ==
    \/ AMQPConsumer_consume /\ ConsumerOnly
    \/ AMQPConsumer_stopConsuming /\ ConsumerOnly
    \/ AssertQueueOk /\ ConsumerOnly
    \/ AssertExchangeOk /\ ConsumerOnly
    \/ BindQueueOk /\ ConsumerOnly
    \/ PrefetchOk /\ ConsumerOnly
    \/ ConsumeOk /\ ConsumerOnly
    \/ CancelOk /\ ConsumerOnly
    \/ ConsumerChannelCloses /\ ConsumerOnly
    \/ \E s \in Invocations : Deliver(s) /\ ConsumerOnly
    \/ \E s \in Invocations : ServerCancel(s) /\ ConsumerOnly
    \/ ConsumerDispatch /\ ConsumerOnly

\* The broker answers every RPC of an open channel, and the event loop runs
\* every setImmediate callback.
ConsumerFairness ==
    /\ WF_vars(AssertQueueOk /\ ConsumerOnly)
    /\ WF_vars(AssertExchangeOk /\ ConsumerOnly)
    /\ WF_vars(BindQueueOk /\ ConsumerOnly)
    /\ WF_vars(PrefetchOk /\ ConsumerOnly)
    /\ WF_vars(ConsumeOk /\ ConsumerOnly)
    /\ WF_vars(CancelOk /\ ConsumerOnly)
    /\ WF_vars(ConsumerDispatch /\ ConsumerOnly)

\* The consumer as an AMQPListener drives it: consume() once when it is
\* built and again from the cancel handler, stopConsuming() from
\* channelClosed and stopListening().
ListenedNext ==
    \/ ListenerConsumes /\ ConsumerOnly
    \/ AMQPConsumer_stopConsuming /\ ConsumerOnly
    \/ AssertQueueOk /\ ConsumerOnly
    \/ AssertExchangeOk /\ ConsumerOnly
    \/ BindQueueOk /\ ConsumerOnly
    \/ PrefetchOk /\ ConsumerOnly
    \/ ConsumeOk /\ ConsumerOnly
    \/ CancelOk /\ ConsumerOnly
    \/ ConsumerChannelCloses /\ ConsumerOnly
    \/ \E s \in Invocations : Deliver(s) /\ ConsumerOnly
    \/ \E s \in Invocations : ServerCancel(s) /\ ConsumerOnly
    \/ ListenedDispatch /\ ConsumerOnly

\* The broker answers every RPC of an open channel, and the event loop runs
\* every setImmediate callback.
ListenedFairness ==
    /\ WF_vars(AssertQueueOk /\ ConsumerOnly)
    /\ WF_vars(AssertExchangeOk /\ ConsumerOnly)
    /\ WF_vars(BindQueueOk /\ ConsumerOnly)
    /\ WF_vars(PrefetchOk /\ ConsumerOnly)
    /\ WF_vars(ConsumeOk /\ ConsumerOnly)
    /\ WF_vars(CancelOk /\ ConsumerOnly)
    /\ WF_vars(ListenedDispatch /\ ConsumerOnly)

\* The handlers of the consumer's message event.  MessageHandler is the one
\* registered when the consumer is built, before consume(), and kept; the
\* others come and go while messages are in flight.
MessageHandler == 1

\* emitter.on(eventName, l), emitter.once(eventName, l) and
\* emitter.removeListener(eventName, l) for a handler l.
on(l) ==
    /\ regs[l] = "none"
    /\ regs' = [regs EXCEPT ![l] = "on"]
    /\ UNCHANGED calls

once(l) ==
    /\ regs[l] = "none"
    /\ regs' = [regs EXCEPT ![l] = "once"]
    /\ UNCHANGED calls

removeListener(l) ==
    /\ regs[l] # "none"
    /\ regs' = [regs EXCEPT ![l] = "none"]
    /\ UNCHANGED calls

\* The setImmediate callback of emitAsync with handlers registered.
MessageDispatch ==
    /\ ConsumerDispatch
    /\ LET after == emit(regs, calls, "message", Head(consImmediates)) IN
       /\ regs' = after.regs
       /\ calls' = after.calls

ConsumerAndEmitterOnly ==
    UNCHANGED <<connVars, mgrVars, lisVars, tierVars, pubVars>>

EmitterNext ==
    \/ AMQPConsumer_consume /\ ConsumerOnly
    \/ AMQPConsumer_stopConsuming /\ ConsumerOnly
    \/ AssertQueueOk /\ ConsumerOnly
    \/ AssertExchangeOk /\ ConsumerOnly
    \/ BindQueueOk /\ ConsumerOnly
    \/ PrefetchOk /\ ConsumerOnly
    \/ ConsumeOk /\ ConsumerOnly
    \/ CancelOk /\ ConsumerOnly
    \/ ConsumerChannelCloses /\ ConsumerOnly
    \/ \E s \in Invocations : Deliver(s) /\ ConsumerOnly
    \/ \E s \in Invocations : ServerCancel(s) /\ ConsumerOnly
    \/ MessageDispatch /\ ConsumerAndEmitterOnly
    \/ \E l \in Handlers \ {MessageHandler} :
          on(l) /\ UNCHANGED consVars /\ ConsumerAndEmitterOnly
    \/ \E l \in Handlers \ {MessageHandler} :
          once(l) /\ UNCHANGED consVars /\ ConsumerAndEmitterOnly
    \/ \E l \in Handlers \ {MessageHandler} :
          removeListener(l) /\ UNCHANGED consVars /\ ConsumerAndEmitterOnly

\* Another consumer on the same channel: the RPCs it submits carry this
\* reference instead of an invocation of the consumer observed.
OtherConsumer == 0

\* The other consumer calls channel.prefetch() in a turn of its own.
OtherConsumerPrefetch ==
    /\ channelOpen
    /\ Cardinality({i \in DOMAIN rpcs : rpcs[i].ref = OtherConsumer}) < MaxOtherRpcs
    /\ rpcs' = Append(rpcs, [method |-> "prefetch", ref |-> OtherConsumer])
    /\ UNCHANGED <<consumer, prefetch, invocations, channelOpen, stopChain,
                   consImmediates, delivered, consumeReturned, undisturbed, stopDone>>

SharedChannelNext ==
    \/ AMQPConsumer_consume /\ ConsumerOnly
    \/ AMQPConsumer_stopConsuming /\ ConsumerOnly
    \/ AssertQueueOk /\ ConsumerOnly
    \/ AssertExchangeOk /\ ConsumerOnly
    \/ BindQueueOk /\ ConsumerOnly
    \/ PrefetchOk /\ ConsumerOnly
    \/ ConsumeOk /\ ConsumerOnly
    \/ CancelOk /\ ConsumerOnly
    \/ ConsumerChannelCloses /\ ConsumerOnly
    \/ \E s \in Invocations : Deliver(s) /\ ConsumerOnly
    \/ \E s \in Invocations : ServerCancel(s) /\ ConsumerOnly
    \/ ConsumerDispatch /\ ConsumerOnly
    \/ OtherConsumerPrefetch /\ ConsumerOnly

----------------------------------------------------------------------------
(***************************************************************************)
(* Properties of the AMQPConsumer.                                         *)
(***************************************************************************)
\* This step makes emitAsync schedule the event eventName.
ConsumerSchedules(eventName) ==
    /\ Len(consImmediates') > Len(consImmediates)
    /\ consImmediates'[Len(consImmediates')].event = eventName

\* C8: as long as neither stopConsuming() was called nor the broker
\* cancelled (nor the channel closed), all consume() calls have returned
\* the same future, one declaration sequence was begun and at most one
\* basic.consume was submitted.
C8_ConsumeOnce ==
    undisturbed =>
        /\ Cardinality(consumeReturned) <= 1
        /\ Cardinality({k \in Invocations : invocations[k].pc # "unused"}) <= 1
        /\ Cardinality({k \in Invocations :
                            invocations[k].subscription # "none"}) <= 1

\* C9: once a future returned by stopConsuming() has resolved (and until
\* consume() is called again) the channel's deliveries schedule no message
\* event.
C9_NoMessageAfterStop ==
    [][stopDone => ~ConsumerSchedules("message")]_vars

\* C10: the future of consume() is fulfilled only when the basic.consume RPC
\* has completed: in the step that fulfils it the subscription is live and
\* its consumer tag is stored.
C10_FulfilledWhenLive ==
    [][\A k \in Invocations :
          (invocations[k].promise # "fulfilled"
               /\ invocations'[k].promise = "fulfilled") =>
              /\ invocations'[k].subscription = "live"
              /\ consumer'.consumerTag = k]_vars

\* This step is a null delivery: the broker cancelled a live subscription.
ServerCancelled ==
    /\ UNCHANGED rpcs
    /\ \E s \in Invocations : /\ invocations[s].subscription = "live"
                               /\ invocations'[s].subscription = "cancelled"

\* This step runs the handlers of a cancel event.
CancelDispatched ==
    /\ Len(consImmediates') < Len(consImmediates)
    /\ Head(consImmediates).event = "cancel"

StopCompletedSuccessfully ==
    /\ rpcs # <<>> /\ Head(rpcs).method = "cancel"
    /\ rpcs' = Tail(rpcs)
    /\ consumer.stopPromise # Null /\ consumer'.stopPromise = Null

\* C30: the consumer stores at most one consumer tag, the tag of one of its
\* subscriptions or none, and after a stopConsuming() that completed
\* successfully it stores none.
C30_TagClearedAfterStop ==
    /\ [](consumer.consumerTag \in Invocations \cup {Null})
    /\ [][StopCompletedSuccessfully => consumer'.consumerTag = Null]_vars

\* C31: stopConsuming() on a consumer whose consume() was never called
\* resolves and submits no RPC; a call made while a stop is in progress
\* returns the future of that stop, building no second chain and submitting
\* no RPC; and at most one basic.cancel is submitted with the tag of any
\* subscription.
C31_StopConsumingIdempotent ==
    /\ [][(AMQPConsumer_stopConsuming /\ NextInvocation = 1) =>
             /\ rpcs' = rpcs
             /\ consumer' = consumer
             /\ stopDone']_vars
    /\ [][(AMQPConsumer_stopConsuming /\ consumer.stopPromise # Null) =>
             /\ rpcs' = rpcs
             /\ consumer' = consumer
             /\ stopChain' = stopChain]_vars
    /\ [](\A k \in Invocations : invocations[k].cancels <= 1)

PendingMessages ==
    Cardinality({i \in DOMAIN consImmediates : consImmediates[i].event = "message"})

\* C33: emitAsync invokes no handler in the turn that calls it and every
\* handler registered at dispatch time exactly once in a later turn: the
\* kept handler has been invoked once for every message delivered and
\* dispatched, the delivery callback invokes no handler, and handlers are
\* only invoked by the dispatch of the oldest pending event, each handler
\* registered at that moment once with the event's argument.
C33_EmitAsyncDefers ==
    /\ [](Len(calls[MessageHandler]) + PendingMessages = delivered)
    /\ [][(\E s \in Invocations : Deliver(s)) =>
             /\ calls' = calls
             /\ consImmediates' # consImmediates]_vars
    /\ [][calls' # calls =>
             /\ consImmediates # <<>>
             /\ consImmediates' = Tail(consImmediates)
             /\ Head(consImmediates).event = "message"
             /\ \A l \in Handlers :
                   calls'[l] = IF regs[l] # "none"
                               THEN Append(calls[l], Head(consImmediates).arg)
                               ELSE calls[l]]_vars

\* Two messages were dispatched; a handler registered in between got one.
C33_Witness ==
    /\ Len(calls[MessageHandler]) = 2
    /\ \E l \in Handlers \ {MessageHandler} : Len(calls[l]) = 1

\* The number of RPCs of that method and submitter in the queue q.
Pending(q, method, k) ==
    Cardinality({i \in DOMAIN q : q[i] = [method |-> method, ref |-> k]})

C38_CancelsOwnSubscription ==
    \A i \in DOMAIN rpcs :
        rpcs[i].method = "cancel" =>
            /\ stopChain.status = "cancelling"
            /\ rpcs[i].ref # Null
            /\ rpcs[i].ref = stopChain.promise

----------------------------------------------------------------------------
(***************************************************************************)
(* AMQPListener                                                            *)
(*                                                                         *)
(* The listener owns a channel manager (the one modelled above) and builds *)
(* one consumer per factory on every channel the manager creates.  A       *)
(* consumer is named by its channel and its factory.  Here a consumer is   *)
(* kept at the grain the listener sees: the future of its consume(), its   *)
(* _started flag, its pending stopConsuming() chain and its subscription.  *)
(*                                                                         *)
(* A then-callback runs as a microtask: after the code that queued it and  *)
(* before any I/O event, timer or setImmediate callback.                   *)
(*                                                                         *)
(* The channel runs its RPCs one at a time in submission order and the     *)
(* factories take like options, so the consumers of one channel finish     *)
(* each of their steps in factory order.  A drop of the channel or of the  *)
(* connection is its close event.                                          *)
(***************************************************************************)
\* consumer factories given to the constructor
MaxFactories == 2
\* calls of listen() during a run
MaxListens == 2
\* calls of stopListening() during a run
MaxStops == 2

Factories == 1..MaxFactories
Listens == 1..MaxListens
Stops == 1..MaxStops
ConsumerIds == Channels \X Factories

\* A consumer no factory has built yet.
\*   phase: unbuilt, declaring (_startConsuming at an await), failed (it
\*       threw), requested (basic.consume submitted), live (consume-ok
\*       received, tag stored), cancelled, dead (channel gone)
\*   promise: the future consume() returned: none, pending, fulfilled, rejected
\*   started, hasConsumePromise: _started, _consumePromise !== null
\*   stopping: _stopPromise !== null (a basic.cancel is awaiting its reply)
\*   cancelEvent: emitAsync('cancel') is scheduled and not yet dispatched
NoListenerConsumer ==
    [phase |-> "unbuilt", promise |-> "none", started |-> FALSE,
     hasConsumePromise |-> FALSE, stopping |-> FALSE, cancelEvent |-> FALSE]

\* A stopListening() call that has not been made.
\*   status: none, threw, pending (Promise.all waits), then (its callback is
\*       queued as a microtask), fulfilled
\*   consumers: self._consumers at the call
\*   asked: the consumers whose stopConsuming() returned a pending future
\*   waiting: the consumers whose stopConsuming() future has not resolved
\*   inCall: the callback was queued by the call itself, whose caller may
\*       still be running
NoStopCall ==
    [status |-> "none", consumers |-> {}, asked |-> {}, waiting |-> {},
     inCall |-> FALSE]

NextListen == Cardinality({k \in Listens : listenPromises[k] # "none"}) + 1
NextStop == Cardinality({k \in Stops : stopCalls[k].status # "none"}) + 1

\* A then-callback of stopListening() is queued.
MicrotaskQueued == \E k \in Stops : stopCalls[k].status = "then"

\* The caller of the listener may make (another) call now.
UserMayRun == \A k \in Stops : stopCalls[k].status = "then" => stopCalls[k].inCall

\* The channel accepts operations: open, close() not called, no error.
Usable(chs, ch) == chs[ch].status = "open" /\ ~chs[ch].errored

\* AMQPConsumer.stopConsuming() on the consumer c (a record); the future it
\* returns is pending exactly if the result is stopping.  A started consumer
\* has a fulfilled consume() future, so the chain goes straight to
\* channel.cancel(tag), which fails without an RPC while the tag is null.
stopConsuming(c) ==
    IF ~c.started \/ c.stopping \/ ~c.hasConsumePromise
    THEN c
    ELSE [c EXCEPT !.started = FALSE,
                   !.hasConsumePromise = FALSE,
                   !.stopping = (c.phase = "live")]

\* The consumers after the channels chs lost their unusable members: every
\* pending RPC rejects, so a declaration throws and a stopConsuming() chain
\* swallows the rejection and clears _stopPromise.
Dropped(cs, chs) ==
    [c \in ConsumerIds |->
        IF cs[c].phase = "unbuilt" \/ Usable(chs, c[1]) THEN cs[c]
        ELSE [cs[c] EXCEPT
                 !.phase = IF @ = "declaring" THEN "failed"
                           ELSE IF @ \in {"requested", "live"} THEN "dead"
                           ELSE @,
                 !.promise = IF @ = "pending" THEN "rejected" ELSE @,
                 !.stopping = FALSE]]

\* A Promise.all that does not wait for the futures it was given.
ProgressWithoutWaiting(sc, cs) ==
    [k \in Stops |->
        IF sc[k].status # "pending" THEN sc[k]
        ELSE [sc[k] EXCEPT !.status = "then"]]

\* Promise.all of stopListening(): the calls sc after the consumers became cs.
Progress(sc, cs) ==
    [k \in Stops |->
        IF sc[k].status # "pending" THEN sc[k]
        ELSE LET w == {c \in sc[k].waiting : cs[c].stopping} IN
             [sc[k] EXCEPT !.waiting = w,
                           !.status = IF w = {} THEN "then" ELSE "pending"]]

\* The consumers the manager's step leaves, and the stopListening() calls
\* that wait for them.
ListenerFollows ==
    /\ lconsumers' = Dropped(lconsumers, channels')
    /\ stopCalls' = Progress(stopCalls, lconsumers')
    /\ UNCHANGED <<listener, listenPromises, subscribed, allOf, lastCreate>>

\* resolve() of the listen() future k; settling a settled future does nothing.
resolve(ps, k) == IF ps[k] = "pending" THEN [ps EXCEPT ![k] = "fulfilled"] ELSE ps

\* reject() of the listen() future k.
reject(ps, k) == IF ps[k] = "pending" THEN [ps EXCEPT ![k] = "rejected"] ELSE ps

\* A destroy callback that removes the handlers and forgets to reject.
destroyKeepsPending(k) ==
    /\ subscribed' = subscribed \ {k}
    /\ UNCHANGED listenPromises

\* The destroy callback of the listen() call k.
destroy(k) ==
    /\ subscribed' = subscribed \ {k}
    /\ listenPromises' = reject(listenPromises, k)

\* A channelCreated that pushes onto the old set without emptying it.
KeptConsumerSet(old, ch) == old \cup {<<ch, f>> : f \in Factories}

\* self._consumers after channelCreated(ch): emptied, then one consumer per
\* factory pushed.
FreshConsumerSet(old, ch) == {<<ch, f>> : f \in Factories}

\* Promise.all(consumePromises) of the channel ch is fulfilled.
AllStarted(cs, ch) == \A f \in Factories : cs[<<ch, f>>].promise = "fulfilled"

\* AMQPListener.listen().
AMQPListener_listen ==
    /\ UserMayRun
    /\ NextListen \in Listens
    /\ LET k == NextListen IN
       IF listener.started
       THEN \* return Promise.resolve()
            /\ listenPromises' = [listenPromises EXCEPT ![k] = "fulfilled"]
            /\ UNCHANGED <<listener, subscribed, manager, createPending>>
       ELSE IF manager.connectionClosed
       THEN \* _channelManager.start() throws, and so does listen()
            /\ listener' = [listener EXCEPT !.started = TRUE]
            /\ manager' = startThrows(manager)
            /\ UNCHANGED <<listenPromises, subscribed, createPending>>
       ELSE /\ listener' = [listener EXCEPT !.started = TRUE, !.destroy = k]
            /\ IF manager.started
               THEN UNCHANGED <<manager, createPending>>
               ELSE _createChannel([manager EXCEPT !.started = TRUE])
            /\ listenPromises' = [listenPromises EXCEPT ![k] = "pending"]
            /\ subscribed' = subscribed \cup {k}
    /\ UNCHANGED <<mgrConnection, channels, mgrTimers, mgrImmediates, mgrEmitted,
                   lconsumers, allOf, lastCreate, stopCalls>>

\* AMQPListener.stopListening() up to the return of its future.
AMQPListener_stopListening ==
    /\ UserMayRun
    /\ NextStop \in Stops
    /\ LET k == NextStop IN
       IF listener.started /\ listener.destroy = Null
       THEN \* self._destroy is null: the call throws
            /\ listener' = [listener EXCEPT !.started = FALSE]
            /\ stopCalls' = [stopCalls EXCEPT ![k] =
                                [NoStopCall EXCEPT !.status = "threw"]]
            /\ UNCHANGED <<listenPromises, subscribed, lconsumers>>
       ELSE /\ listener' = [listener EXCEPT !.started = FALSE]
            /\ IF listener.started
               THEN destroy(listener.destroy)
               ELSE UNCHANGED <<listenPromises, subscribed>>
            /\ LET stopped == [c \in ConsumerIds |->
                                  IF c \in listener.consumers
                                  THEN stopConsuming(lconsumers[c])
                                  ELSE lconsumers[c]]
                   waiting == {c \in listener.consumers : stopped[c].stopping}
               IN  /\ lconsumers' = stopped
                   /\ stopCalls' = [stopCalls EXCEPT ![k] =
                          [status |-> IF waiting = {} THEN "then" ELSE "pending",
                           consumers |-> listener.consumers,
                           asked |-> waiting,
                           waiting |-> waiting,
                           inCall |-> (waiting = {})]]
    /\ UNCHANGED <<mgrVars, allOf, lastCreate>>

\* The then-callback of stopListening(): self._channelManager.stop().  The
\* channel it closes takes its consumers with it.
StopListeningThen(k) ==
    /\ stopCalls[k].status = "then"
    /\ IF manager.started
       THEN _destroyChannel([manager EXCEPT !.started = FALSE])
       ELSE UNCHANGED <<manager, channels, mgrTimers>>
    /\ lconsumers' = Dropped(lconsumers, channels')
    /\ stopCalls' = Progress([j \in Stops |->
                                 IF j = k THEN [stopCalls[j] EXCEPT !.status = "fulfilled"]
                                 ELSE [stopCalls[j] EXCEPT !.inCall = FALSE]],
                             lconsumers')
    /\ UNCHANGED <<mgrConnection, createPending, mgrImmediates, mgrEmitted,
                   listener, listenPromises, subscribed, allOf, lastCreate>>

\* channelCreated(channel) of the listen() call k.
channelCreated(k, ch) ==
    /\ listener' = [listener EXCEPT
                       !.consumers = FreshConsumerSet(listener.consumers, ch)]
    /\ lconsumers' = [c \in ConsumerIds |->
           IF c[1] # ch THEN lconsumers[c]
           ELSE IF Usable(channels, ch)
           THEN [NoListenerConsumer EXCEPT !.phase = "declaring",
                                           !.promise = "pending",
                                           !.hasConsumePromise = TRUE]
           ELSE [NoListenerConsumer EXCEPT !.phase = "failed",
                                           !.promise = "rejected",
                                           !.hasConsumePromise = TRUE]]
    /\ allOf' = [allOf EXCEPT ![ch] = k]
    /\ lastCreate' = ch
    /\ UNCHANGED listenPromises

\* channelClosed(channel): stopConsuming() on every consumer of the set.
channelClosed(ch) ==
    /\ lconsumers' = [c \in ConsumerIds |->
                         IF c \in listener.consumers
                         THEN stopConsuming(lconsumers[c])
                         ELSE lconsumers[c]]
    /\ UNCHANGED <<listener, allOf, lastCreate, listenPromises>>

\* The event loop runs the manager's oldest setImmediate callback, and the
\* emitted event reaches the handlers listen() registered.
ListenerDispatch ==
    /\ ~MicrotaskQueued
    /\ mgrImmediates # <<>>
    /\ LET e == Head(mgrImmediates) IN
       /\ mgrImmediates' = Tail(mgrImmediates)
       /\ IF subscribed = {}
          THEN UNCHANGED <<listener, lconsumers, allOf, lastCreate, listenPromises>>
          ELSE IF e.event = "create"
          THEN channelCreated(CHOOSE k \in subscribed : TRUE, e.arg)
          ELSE channelClosed(e.arg)
    /\ UNCHANGED <<manager, mgrConnection, channels, createPending, mgrTimers,
                   mgrEmitted, subscribed, stopCalls>>

\* The declarations of consumer c complete: _startConsuming submits
\* basic.consume, sets _started and returns, which fulfils the future of
\* consume(); Promise.all of the channel may resolve the listen() future.
Declared(c) ==
    /\ ~MicrotaskQueued
    /\ lconsumers[c].phase = "declaring"
    /\ \A f \in Factories : f < c[2] => lconsumers[<<c[1], f>>].phase # "declaring"
    /\ LET cs == [lconsumers EXCEPT ![c].phase = "requested",
                                    ![c].promise = "fulfilled",
                                    ![c].started = TRUE]
       IN  /\ lconsumers' = cs
           /\ listenPromises' = IF AllStarted(cs, c[1])
                                THEN resolve(listenPromises, allOf[c[1]])
                                ELSE listenPromises
    /\ UNCHANGED <<mgrVars, listener, subscribed, allOf, lastCreate, stopCalls>>

\* The reply to basic.consume of consumer c: the tag is stored.
Subscribed(c) ==
    /\ ~MicrotaskQueued
    /\ lconsumers[c].phase = "requested"
    /\ \A f \in Factories : f < c[2] => lconsumers[<<c[1], f>>].phase # "requested"
    /\ lconsumers' = [lconsumers EXCEPT ![c].phase = "live"]
    /\ UNCHANGED <<mgrVars, listener, listenPromises, subscribed, allOf,
                   lastCreate, stopCalls>>

\* The reply to basic.cancel of consumer c: its stopConsuming() future
\* resolves.
Cancelled(c) ==
    /\ ~MicrotaskQueued
    /\ lconsumers[c].stopping
    /\ lconsumers[c].phase \in {"live", "cancelled"}
    /\ \A f \in Factories : f < c[2] => ~lconsumers[<<c[1], f>>].stopping
    /\ lconsumers' = [lconsumers EXCEPT ![c].phase = "cancelled",
                                        ![c].stopping = FALSE]
    /\ stopCalls' = Progress(stopCalls, lconsumers')
    /\ UNCHANGED <<mgrVars, listener, listenPromises, subscribed, allOf, lastCreate>>

\* handleMessage(null) of consumer c: the broker cancelled its subscription.
ConsumerCancelledByServer(c) ==
    /\ ~MicrotaskQueued
    /\ lconsumers[c].phase = "live"
    /\ Usable(channels, c[1])
    /\ lconsumers' = [lconsumers EXCEPT ![c].phase = "cancelled",
                                        ![c].started = FALSE,
                                        ![c].hasConsumePromise = FALSE,
                                        ![c].cancelEvent = TRUE]
    /\ UNCHANGED <<mgrVars, listener, listenPromises, subscribed, allOf,
                   lastCreate, stopCalls>>

\* The cancel handler channelCreated attached to consumer c runs: unless
\* the consumer is stopping it calls consume(), which on a consumer that is
\* not started begins _startConsuming, throwing at once on a channel that
\* takes no operations.
CancelDispatch(c) ==
    /\ ~MicrotaskQueued
    /\ lconsumers[c].cancelEvent
    /\ lconsumers' = [lconsumers EXCEPT ![c] =
           IF lconsumers[c].stopping \/ lconsumers[c].started
           THEN [@ EXCEPT !.cancelEvent = FALSE]
           ELSE [@ EXCEPT !.cancelEvent = FALSE,
                          !.hasConsumePromise = TRUE,
                          !.phase = IF Usable(channels, c[1])
                                    THEN "declaring" ELSE "failed"]]
    /\ UNCHANGED <<mgrVars, listener, listenPromises, subscribed, allOf,
                   lastCreate, stopCalls>>

ListenerInit ==
    /\ listener = [started |-> FALSE, destroy |-> Null, consumers |-> {}]
    /\ listenPromises = [k \in Listens |-> "none"]
    /\ subscribed = {}
    /\ lconsumers = [c \in ConsumerIds |-> NoListenerConsumer]
    /\ allOf = [ch \in Channels |-> Null]
    /\ lastCreate = Null
    /\ stopCalls = [k \in Stops |-> NoStopCall]

\* A step of the listener, its manager and its consumers leaves the other
\* components alone.
ListenerOnly == UNCHANGED <<connVars, consVars, tierVars, pubVars, emVars>>

\* An I/O event or a timer of the channel manager, with what it does to the
\* listener's consumers.
ListenerNext ==
    \/ AMQPListener_listen /\ ListenerOnly
    \/ AMQPListener_stopListening /\ ListenerOnly
    \/ \E k \in Stops : StopListeningThen(k) /\ ListenerOnly
    \/ ListenerDispatch /\ ListenerOnly
    \/ \E c \in ConsumerIds : Declared(c) /\ ListenerOnly
    \/ \E c \in ConsumerIds : Subscribed(c) /\ ListenerOnly
    \/ \E c \in ConsumerIds : Cancelled(c) /\ ListenerOnly
    \/ ~MicrotaskQueued /\ CreateResolved /\ ListenerFollows /\ ListenerOnly
    \/ ~MicrotaskQueued /\ CreateRejected /\ ListenerFollows /\ ListenerOnly
    \/ \E ch \in Channels :
          ~MicrotaskQueued /\ ChannelClose(ch) /\ ListenerFollows /\ ListenerOnly
    \/ ~MicrotaskQueued /\ ManagerConnectionClose /\ ListenerFollows /\ ListenerOnly
    \/ \E t \in mgrTimers :
          ~MicrotaskQueued /\ RecreateTimerFires(t) /\ ListenerFollows /\ ListenerOnly

\* The factory whose queue the broker deletes or fails over, cancelling the
\* subscriptions to it.
CancelledFactory == 1

\* The listener with a broker that may cancel the subscriptions to the
\* queue of one factory.
ListenerCancelsNext ==
    \/ ListenerNext
    \/ \E ch \in Channels :
          ConsumerCancelledByServer(<<ch, CancelledFactory>>) /\ ListenerOnly
    \/ \E c \in ConsumerIds : CancelDispatch(c) /\ ListenerOnly

----------------------------------------------------------------------------
(***************************************************************************)
(* Properties of the AMQPListener.                                         *)
(***************************************************************************)
\* C11: every consumer of the listener's set was built on the channel of the
\* create event channelCreated took last; after that event no consumer of an
\* earlier channel is in the set.
C11_ConsumersOfLastCreate ==
    \A c \in listener.consumers : c[1] = lastCreate

\* A second create event was taken, and its consumers replaced the first's.
C11_Witness ==
    /\ lastCreate = 2
    /\ allOf[1] # Null
    /\ listener.consumers = {<<2, f>> : f \in Factories}

\* C12: a future of listen() is fulfilled only in a step after which, on
\* some one channel, the consumer of every factory has started (its
\* consume() future is fulfilled).
C12_ListenFulfilledWhenAllStarted ==
    [][\A k \in Listens :
          (listenPromises[k] # "fulfilled" /\ listenPromises'[k] = "fulfilled") =>
              \E ch \in Channels : AllStarted(lconsumers', ch)]_vars

\* This step is a call of stopListening().
StopListeningCalled ==
    \E k \in Stops : stopCalls[k].status = "none" /\ stopCalls'[k].status # "none"

\* C13: a stopListening() call rejects the listen() future that is still
\* pending; a listen() future is rejected in no other step (not by a failed
\* declaration, not by a channel drop); a fulfilled listen() future stays
\* fulfilled.
C13_RejectedOnlyByStop ==
    [][/\ StopListeningCalled =>
              \A k \in Listens : listenPromises[k] = "pending" =>
                                      listenPromises'[k] = "rejected"
       /\ (\E k \in Listens : listenPromises[k] # "rejected"
                                 /\ listenPromises'[k] = "rejected") =>
              StopListeningCalled
       /\ \A k \in Listens : listenPromises[k] = "fulfilled" =>
                                listenPromises'[k] = "fulfilled"]_vars

\* stopListening() rejected the first listen() future while it was pending;
\* the second one was fulfilled by a started channel and a later
\* stopListening() left it fulfilled; a channel had dropped during startup.
C13_Witness ==
    /\ listenPromises[1] = "rejected"
    /\ listenPromises[2] = "fulfilled"
    /\ stopCalls[2].status # "none"
    /\ \E ch \in Channels : allOf[ch] = 2 /\ AllStarted(lconsumers, ch)
    /\ \E c \in ConsumerIds : lconsumers[c].phase = "failed"

\* This step fulfils the future of the stopListening() call k.
StopFulfils(k) ==
    stopCalls[k].status # "fulfilled" /\ stopCalls'[k].status = "fulfilled"

\* Every consumer the stopListening() call k asked to stop has finished
\* stopping: the future stopConsuming() returned to the call has resolved
\* (it was resolved when returned, or the consumer's chain has ended since).
AllStopped(k) == \A c \in stopCalls[k].asked : ~lconsumers[c].stopping

\* C14: the future of stopListening() is fulfilled only when every consumer
\* of the set it was called on has finished stopping, the channel manager is
\* stopped by then, and the listener stops its channel manager in no other
\* step.
C14_StopWaitsForConsumers ==
    [][/\ \A k \in Stops : StopFulfils(k) => AllStopped(k) /\ ~manager'.started
       /\ (manager.started /\ ~manager'.started) =>
              \E k \in Stops : StopFulfils(k) /\ AllStopped(k)]_vars

\* A stopListening() future is fulfilled after it waited for the
\* basic.cancel of each of its consumers.
C14_Witness ==
    \E k \in Stops :
        /\ stopCalls[k].status = "fulfilled"
        /\ stopCalls[k].consumers # {}
        /\ \A c \in stopCalls[k].consumers : lconsumers[c].phase = "cancelled"
        /\ ~manager.started

\* This step hands the manager's event eventName to the handlers of a
\* started listener.
ListenerHandles(eventName) ==
    /\ listener.started
    /\ subscribed # {}
    /\ Len(mgrImmediates') < Len(mgrImmediates)
    /\ Head(mgrImmediates).event = eventName

\* C15: while the listener is started and the connection is alive,
\*   - the handling of a close event stops the started consumers of the
\*     channel that closed, and no consumer of another channel;
\*   - the handling of a create event leaves the set with one fresh consumer
\*     per factory on the new channel, consume() called on each;
\*   - the channel manager is still started, so that a create follows the
\*     drop and consumption resumes.
C15_DropIsFollowedByRecovery ==
    /\ [][ListenerHandles("close") =>
            LET ch == Head(mgrImmediates).arg IN
            \A c \in ConsumerIds :
                /\ (c[1] = ch /\ lconsumers[c].started) => ~lconsumers'[c].started
                /\ (c[1] # ch /\ lconsumers[c].started) => lconsumers'[c].started]_vars
    /\ [][ListenerHandles("create") =>
            LET ch == Head(mgrImmediates).arg IN
            /\ listener'.consumers = {<<ch, f>> : f \in Factories}
            /\ \A c \in listener'.consumers :
                   /\ lconsumers'[c].phase \in {"declaring", "failed"}
                   /\ lconsumers'[c].hasConsumePromise]_vars
    /\ []((listener.started /\ subscribed # {} /\ ConnectionAlive) => manager.started)

\* The stopListening() call made last.
LastStop == NextStop - 1

\* C39: once stopListening() has been called the cancel handler of no
\* consumer calls consume() again, and when the future of the last
\* stopListening() is fulfilled and listen() was not called since, no
\* consumer is starting up or subscribed.
C39_StoppedListenerStaysStopped ==
    /\ [][\A c \in ConsumerIds :
             (CancelDispatch(c) /\ ~listener.started) =>
                 lconsumers'[c] = [lconsumers[c] EXCEPT !.cancelEvent = FALSE]]_vars
    /\ []((/\ ~listener.started
           /\ LastStop \in Stops
           /\ stopCalls[LastStop].status = "fulfilled")
            => \A c \in ConsumerIds :
                  lconsumers[c].phase \notin {"declaring", "requested", "live"})

----------------------------------------------------------------------------
(***************************************************************************)
(* AMQPTieredListener (src/unnamed/part_004, second module of the file).   *)
(*                                                                         *)
(* The constructor maps every tier to a consumer factory, constructConsumer*)
(* and hands the factories to an AMQPListener.  The model keeps, of each   *)
(* consumer, what it declares on the broker (its queue, the queue's        *)
(* options and binds) and what its 'message' handler does; the sequences   *)
(* of the source start at 0 and those of the model at 1, so tier i of the  *)
(* source is tiers[i + 1] here.                                            *)
(*                                                                         *)
(* The broker is the part of AMQP the tiers depend on: a message published *)
(* to an exchange goes to a queue bound to it with a matching pattern and  *)
(* is lost when there is none; a message rejected without requeue is       *)
(* published to the queue's dead-letter exchange with the queue's          *)
(* dead-letter routing key and is discarded when the queue has no such     *)
(* exchange; a requeued message returns to its queue; an acknowledged one  *)
(* is gone.  The channel stays open during a run of this part, and a       *)
(* consumer receives messages only after every tier declared its queue,    *)
(* as the declarations of all the tiers precede the first basic.consume    *)
(* on the channel they share.                                              *)
(***************************************************************************)
\* tiers given to the constructor
MaxTiers == 3
\* messages published to the nominal exchange during a run
MaxTierMessages == 1
\* deliveries of one message during a run
MaxDeliveries == 4

TierMessages == 1..MaxTierMessages

\* the queueNameBase argument
queueNameBase == "processor"

\* The tiers an application may pass: those of the example, then two more.
TierPool ==
    << [name |-> "fast", delay |-> 500],
       [name |-> "medium", delay |-> 2000],
       [name |-> "slow", delay |-> 10000],
       [name |-> "slower", delay |-> 10000],
       [name |-> "slowest", delay |-> 10000] >>

\* The exchange the application publishes to, and options.binds.
NominalExchange == "Events"
optionsBinds == {[exchange |-> NominalExchange, pattern |-> "#"]}

\* options.routing.deadLetterExchange || {name: queueNameBase + 'DLX', ...}
deadLetterExchange == [name |-> queueNameBase \o "DLX", type |-> "direct"]

\* a queue option the code has not set
NoSetting == "undefined"
\* options.queue, copied into the options of every tier's queue
optionsQueue ==
    [deadLetterExchange |-> NoSetting, deadLetterRoutingKey |-> NoSetting]

NoQueue == [name |-> NoSetting, options |-> optionsQueue, binds |-> {}]
NoTierTimer == [op |-> "none", delay |-> 0]
NoTierMessage ==
    [phase |-> "unpublished", at |-> 0, handledOn |-> << >>,
     outcomes |-> << >>, performed |-> << >>, timer |-> NoTierTimer]

TierIndexes == 1..Len(tiers)
LastTier == Len(tiers)

tierQueueName(tierIndex) == queueNameBase \o "-" \o tiers[tierIndex].name

\* The last tier falling through to the first whatever circular is.
queueOptionsAlwaysCircular(tierIndex) ==
    [optionsQueue EXCEPT
        !.deadLetterExchange = deadLetterExchange.name,
        !.deadLetterRoutingKey =
            tiers[IF tierIndex # LastTier THEN tierIndex + 1 ELSE 1].name]

\* constructConsumer: the options of the tier's queue.
queueOptions(tierIndex) ==
    LET copied == optionsQueue
        extended ==
            IF tierIndex # LastTier
            THEN [copied EXCEPT
                    !.deadLetterExchange = deadLetterExchange.name,
                    !.deadLetterRoutingKey = tiers[tierIndex + 1].name]
            ELSE copied
    IN  IF tierIndex = LastTier /\ circular
        THEN [extended EXCEPT
                !.deadLetterExchange = deadLetterExchange.name,
                !.deadLetterRoutingKey = tiers[1].name]
        ELSE extended

\* Every tier bound to the dead-letter exchange by the name of its queue.
queueBindsByQueueName(tierIndex) ==
    {[exchange |-> deadLetterExchange.name, pattern |-> tierQueueName(tierIndex)]}
        \cup (IF tierIndex = 1 THEN optionsBinds ELSE {})

\* constructConsumer: the binds of the tier's queue.
queueBinds(tierIndex) ==
    {[exchange |-> deadLetterExchange.name, pattern |-> tiers[tierIndex].name]}
        \cup (IF tierIndex = 1 THEN optionsBinds ELSE {})

\* A failed message rejected on every tier.
failureAlwaysRejects(tierIndex) == "reject"

\* messageProcessingFailed: the operation it hands to setTimeout.
failureOperation(tierIndex) ==
    IF tierIndex # LastTier \/ circular THEN "reject" ELSE "requeue"

AllTiersDeclared == \A i \in TierIndexes : tierQueues[i] # NoQueue

\* The broker: a bind's pattern against a routing key ('#' takes every key).
Matches(pattern, routingKey) == pattern = "#" \/ pattern = routingKey

\* The broker: the queues a message published to the exchange goes to.
Route(exchange, routingKey) ==
    {i \in TierIndexes :
        \E b \in tierQueues[i].binds :
            b.exchange = exchange /\ Matches(b.pattern, routingKey)}

\* The broker: the message enters a queue the exchange routes it to, and is
\* lost when there is none.
Routed(r, exchange, routingKey, queued) ==
    IF Route(exchange, routingKey) = {}
    THEN queued = [r EXCEPT !.phase = "dropped", !.at = 0]
    ELSE \E i \in Route(exchange, routingKey) :
            queued = [r EXCEPT !.phase = "queued", !.at = i]

\* The factory of the tier runs in channelCreated, after those of the tiers
\* before it, and its consumer declares the queue and the binds.
constructConsumer(tierIndex) ==
    /\ tierQueues[tierIndex] = NoQueue
    /\ \A i \in TierIndexes : i < tierIndex => tierQueues[i] # NoQueue
    /\ tierQueues' = [tierQueues EXCEPT ![tierIndex] =
            [name |-> tierQueueName(tierIndex),
             options |-> queueOptions(tierIndex),
             binds |-> queueBinds(tierIndex)]]
    /\ UNCHANGED <<tiers, circular, handlerFails, tierMessages>>

\* The application publishes a message to the nominal exchange.
PublishNominal(m) ==
    /\ AllTiersDeclared
    /\ tierMessages[m].phase = "unpublished"
    /\ \E queued \in [phase : {"queued", "dropped"}, at : 0..MaxTiers,
                      handledOn : {<< >>}, outcomes : {<< >>},
                      performed : {<< >>}, timer : {NoTierTimer}] :
          /\ Routed(tierMessages[m], NominalExchange, "event", queued)
          /\ tierMessages' = [tierMessages EXCEPT ![m] = queued]
    /\ UNCHANGED <<tiers, circular, handlerFails, tierQueues>>

\* The consumer of the message's queue emits 'message' and the handler of
\* constructConsumer calls when.try(messageHandler, message).
TierDeliver(m) ==
    LET r == tierMessages[m] IN
    /\ AllTiersDeclared
    /\ r.phase = "queued"
    /\ Len(r.handledOn) < MaxDeliveries
    /\ tierMessages' = [tierMessages EXCEPT ![m] =
            [r EXCEPT !.phase = "handling",
                      !.handledOn = Append(r.handledOn, r.at)]]
    /\ UNCHANGED <<tiers, circular, handlerFails, tierQueues>>

\* messageProcessed: operations.ack().
messageProcessed(m) ==
    LET r == tierMessages[m] IN
    /\ r.phase = "handling"
    /\ ~handlerFails
    /\ tierMessages' = [tierMessages EXCEPT ![m] =
            [r EXCEPT !.phase = "acked", !.at = 0,
                      !.outcomes = Append(r.outcomes, "processed"),
                      !.performed = Append(r.performed, "ack")]]
    /\ UNCHANGED <<tiers, circular, handlerFails, tierQueues>>

\* messageProcessingFailed: setTimeout(operations.reject or requeue, delay).
messageProcessingFailed(m) ==
    LET r == tierMessages[m] IN
    /\ r.phase = "handling"
    /\ tierMessages' = [tierMessages EXCEPT ![m] =
            [r EXCEPT !.phase = "delay",
                      !.outcomes = Append(r.outcomes, "failed"),
                      !.timer = [op |-> failureOperation(r.at),
                                 delay |-> tiers[r.at].delay]]]
    /\ UNCHANGED <<tiers, circular, handlerFails, tierQueues>>

\* The timer of messageProcessingFailed fires: operations.reject sends
\* basic.reject without requeue and the broker dead-letters the message;
\* operations.requeue returns it to its queue.
TierTimerFires(m) ==
    LET r == tierMessages[m]
        done == [r EXCEPT !.performed = Append(r.performed, r.timer.op),
                          !.timer = NoTierTimer]
        options == tierQueues[r.at].options
    IN
    /\ r.phase = "delay"
    /\ IF r.timer.op = "requeue"
       THEN tierMessages' = [tierMessages EXCEPT ![m] =
                [done EXCEPT !.phase = "queued"]]
       ELSE IF options.deadLetterExchange = NoSetting
            THEN tierMessages' = [tierMessages EXCEPT ![m] =
                    [done EXCEPT !.phase = "dropped", !.at = 0]]
            ELSE \E queued \in [phase : {"queued", "dropped"}, at : 0..MaxTiers,
                                handledOn : {done.handledOn},
                                outcomes : {done.outcomes},
                                performed : {done.performed},
                                timer : {NoTierTimer}] :
                    /\ Routed(done, options.deadLetterExchange,
                              options.deadLetterRoutingKey, queued)
                    /\ tierMessages' = [tierMessages EXCEPT ![m] = queued]
    /\ UNCHANGED <<tiers, circular, handlerFails, tierQueues>>

\* No AMQPTieredListener has been constructed.
NoTieredListener ==
    /\ tiers = << >>
    /\ circular = FALSE
    /\ handlerFails = FALSE
    /\ tierQueues = [i \in 1..MaxTiers |-> NoQueue]
    /\ tierMessages = [m \in TierMessages |-> NoTierMessage]

\* new AMQPTieredListener(connection, queueNameBase, tiers, options): one to
\* MaxTiers tiers, circular or not, a handler that rejects every message or
\* one that may fulfil.
TieredInit ==
    /\ \E n \in 1..MaxTiers : tiers = SubSeq(TierPool, 1, n)
    /\ circular \in BOOLEAN
    /\ handlerFails \in BOOLEAN
    /\ tierQueues = [i \in 1..MaxTiers |-> NoQueue]
    /\ tierMessages = [m \in TierMessages |-> NoTierMessage]

TieredOnly == UNCHANGED <<connVars, mgrVars, consVars, lisVars, pubVars, emVars>>

TieredNext ==
    \/ \E i \in TierIndexes : constructConsumer(i) /\ TieredOnly
    \/ \E m \in TierMessages : PublishNominal(m) /\ TieredOnly
    \/ \E m \in TierMessages : TierDeliver(m) /\ TieredOnly
    \/ \E m \in TierMessages : messageProcessed(m) /\ TieredOnly
    \/ \E m \in TierMessages : messageProcessingFailed(m) /\ TieredOnly
    \/ \E m \in TierMessages : TierTimerFires(m) /\ TieredOnly

\* The handler's future settles, a pending timer fires, and the broker
\* delivers a queued message to the consumer of its queue.
TieredFairness ==
    \A m \in TierMessages :
        /\ WF_vars((messageProcessed(m) \/ messageProcessingFailed(m)) /\ TieredOnly)
        /\ WF_vars(TierTimerFires(m) /\ TieredOnly)
        /\ WF_vars(TierDeliver(m) /\ TieredOnly)

\* The declarations of the tiers on the channel they share.  The RPCs of
\* the channel are those of rpcs, submitted by tier ref; tierQueues holds
\* what the broker has carried out.  A reply runs the continuation of the
\* consumer that awaited it, which submits the consumer's next RPCs.

\* A first tier that has no exchange to declare.
exchangesNoneOnFirstTier(tierIndex) ==
    IF tierIndex = 1 THEN {} ELSE {NominalExchange, deadLetterExchange.name}

\* options.exchanges.concat([deadLetterExchange]), the same for every tier.
exchanges(tierIndex) == {NominalExchange, deadLetterExchange.name}

\* The RPCs the consumer of the tier submits once its binds are done, once
\* its exchanges are done and once its queue is declared; Promise.all of an
\* empty list is fulfilled at once.
AfterBinds(i) == consumptionPromises(i)

AfterExchanges(i) ==
    IF queueBinds(i) = {} THEN AfterBinds(i)
    ELSE Rpcs(Cardinality(queueBinds(i)), "bindQueue", i)

AfterQueue(i) ==
    IF exchanges(i) = {} THEN AfterExchanges(i)
    ELSE Rpcs(Cardinality(exchanges(i)), "assertExchange", i)

\* The consumer of the tier waits for more replies of the kind at the head.
MoreAwaited == \E j \in DOMAIN Tail(rpcs) : Tail(rpcs)[j] = Head(rpcs)

\* The bind the next bindQueue reply of the tier stands for: the binds are
\* requested in the order of queueBinds, the dead-letter exchange first.
NextBind(i) ==
    LET remaining == queueBinds(i) \ tierQueues[i].binds IN
    IF \E b \in remaining : b.exchange = deadLetterExchange.name
    THEN CHOOSE b \in remaining : b.exchange = deadLetterExchange.name
    ELSE CHOOSE b \in remaining : TRUE

\* The subscription of the tier is live: its declarations are complete and
\* basic.consume has been answered.
TierLive(i) ==
    /\ tierQueues[i].name # NoSetting
    /\ tierQueues[i].binds = queueBinds(i)
    /\ \A j \in DOMAIN rpcs : rpcs[j].ref # i

\* channelCreated of the AMQPListener: the factory of every tier runs and
\* consume() is called on its consumer, each submitting assertQueue.
TiersConsume ==
    /\ rpcs = <<>>
    /\ \A i \in TierIndexes : tierQueues[i] = NoQueue
    /\ rpcs' = [i \in TierIndexes |-> [method |-> "assertQueue", ref |-> i]]
    /\ UNCHANGED <<tiers, circular, handlerFails, tierQueues, tierMessages>>

TierAssertQueueOk ==
    /\ rpcs # <<>> /\ Head(rpcs).method = "assertQueue"
    /\ LET i == Head(rpcs).ref IN
       /\ tierQueues' = [tierQueues EXCEPT ![i] =
               [name |-> tierQueueName(i), options |-> queueOptions(i),
                binds |-> {}]]
       /\ rpcs' = Tail(rpcs) \o AfterQueue(i)
    /\ UNCHANGED <<tiers, circular, handlerFails, tierMessages>>

TierAssertExchangeOk ==
    /\ rpcs # <<>> /\ Head(rpcs).method = "assertExchange"
    /\ LET i == Head(rpcs).ref IN
       rpcs' = IF MoreAwaited THEN Tail(rpcs)
               ELSE Tail(rpcs) \o AfterExchanges(i)
    /\ UNCHANGED <<tiers, circular, handlerFails, tierQueues, tierMessages>>

TierBindQueueOk ==
    /\ rpcs # <<>> /\ Head(rpcs).method = "bindQueue"
    /\ LET i == Head(rpcs).ref IN
       /\ tierQueues' = [tierQueues EXCEPT ![i].binds = @ \cup {NextBind(i)}]
       /\ rpcs' = IF MoreAwaited THEN Tail(rpcs)
                  ELSE Tail(rpcs) \o AfterBinds(i)
    /\ UNCHANGED <<tiers, circular, handlerFails, tierMessages>>

\* The reply to prefetch or to basic.consume of a tier.
TierConsumptionOk ==
    /\ rpcs # <<>> /\ Head(rpcs).method \in {"prefetch", "consume"}
    /\ rpcs' = Tail(rpcs)
    /\ UNCHANGED <<tiers, circular, handlerFails, tierQueues, tierMessages>>

\* The application publishes to the nominal exchange at any time.
PublishAnyTime(m) ==
    /\ tierMessages[m].phase = "unpublished"
    /\ \E queued \in [phase : {"queued", "dropped"}, at : 0..MaxTiers,
                      handledOn : {<< >>}, outcomes : {<< >>},
                      performed : {<< >>}, timer : {NoTierTimer}] :
          /\ Routed(tierMessages[m], NominalExchange, "event", queued)
          /\ tierMessages' = [tierMessages EXCEPT ![m] = queued]
    /\ UNCHANGED <<tiers, circular, handlerFails, tierQueues>>

\* The live subscription of the message's queue delivers it.
TierDeliverLive(m) ==
    LET r == tierMessages[m] IN
    /\ r.phase = "queued"
    /\ TierLive(r.at)
    /\ Len(r.handledOn) < MaxDeliveries
    /\ tierMessages' = [tierMessages EXCEPT ![m] =
            [r EXCEPT !.phase = "handling",
                      !.handledOn = Append(r.handledOn, r.at)]]
    /\ UNCHANGED <<tiers, circular, handlerFails, tierQueues>>

\* A step of the tiers and their channel leaves the rest alone.
TierChannelOnly ==
    UNCHANGED <<connVars, mgrVars, lisVars, pubVars, emVars, consumer, prefetch,
                invocations, channelOpen, stopChain, consImmediates, delivered,
                consumeReturned, undisturbed, stopDone>>

TierChannelNext ==
    \/ TiersConsume /\ TierChannelOnly
    \/ TierAssertQueueOk /\ TierChannelOnly
    \/ TierAssertExchangeOk /\ TierChannelOnly
    \/ TierBindQueueOk /\ TierChannelOnly
    \/ TierConsumptionOk /\ TierChannelOnly
    \/ \E m \in TierMessages : PublishAnyTime(m) /\ TieredOnly
    \/ \E m \in TierMessages : TierDeliverLive(m) /\ TieredOnly
    \/ \E m \in TierMessages : messageProcessed(m) /\ TieredOnly
    \/ \E m \in TierMessages : messageProcessingFailed(m) /\ TieredOnly
    \/ \E m \in TierMessages : TierTimerFires(m) /\ TieredOnly

----------------------------------------------------------------------------
(***************************************************************************)
(* Properties of the AMQPTieredListener.                                   *)
(***************************************************************************)
\* C17: the queue of tier i is named queueNameBase + '-' + the tier's name;
\* every tier before the last is declared with the dead-letter exchange and
\* the name of the next tier as dead-letter routing key; the last tier is
\* declared with the name of the first tier as routing key when circular is
\* true and with no dead-letter settings when it is false.
C17_TierQueueDeclarations ==
    \A i \in TierIndexes :
        tierQueues[i] # NoQueue =>
            LET q == tierQueues[i] IN
            /\ q.name = queueNameBase \o "-" \o tiers[i].name
            /\ i < Len(tiers) =>
                  /\ q.options.deadLetterExchange = deadLetterExchange.name
                  /\ q.options.deadLetterRoutingKey = tiers[i + 1].name
            /\ (i = Len(tiers) /\ circular) =>
                  /\ q.options.deadLetterExchange = deadLetterExchange.name
                  /\ q.options.deadLetterRoutingKey = tiers[1].name
            /\ (i = Len(tiers) /\ ~circular) =>
                  /\ q.options.deadLetterExchange = NoSetting
                  /\ q.options.deadLetterRoutingKey = NoSetting

\* Three tiers without circular routing, all declared.
C17_Witness ==
    /\ Len(tiers) = 3
    /\ ~circular
    /\ AllTiersDeclared
    /\ tierQueues[3].name = "processor-slow"
    /\ tierQueues[1].options.deadLetterRoutingKey = "medium"

\* The operation the handler of tier i owes a delivery with this outcome.
OwedOperation(i, outcome) ==
    IF outcome = "processed" THEN "ack"
    ELSE IF i < Len(tiers) \/ circular THEN "reject" ELSE "requeue"

\* Every delivery of the message before the one in progress got exactly one
\* operation, the owed one, and the one in progress got none so far.
OperationsMatchDeliveries(m) ==
    LET r == tierMessages[m] IN
    /\ Len(r.performed) =
          Len(r.handledOn) - (IF r.phase \in {"handling", "delay"} THEN 1 ELSE 0)
    /\ Len(r.outcomes) =
          Len(r.handledOn) - (IF r.phase = "handling" THEN 1 ELSE 0)
    /\ \A p \in 1..Len(r.performed) :
          r.performed[p] = OwedOperation(r.handledOn[p], r.outcomes[p])
    /\ r.phase = "delay" =>
          /\ r.timer.op = OwedOperation(r.at, "failed")
          /\ r.timer.delay = tiers[r.at].delay

\* C18: every delivery on tier i gets exactly one of ack, reject without
\* requeue and requeue, never two and never none: ack when the handler
\* succeeds; when it fails, after the tier's delay, reject if i is not the
\* last tier or circular is true, and requeue otherwise.
C18_OneOperationPerDelivery ==
    /\ [](\A m \in TierMessages : OperationsMatchDeliveries(m))
    /\ \A m \in TierMessages : \A n \in 1..MaxDeliveries :
          (Len(tierMessages[m].handledOn) = n)
              ~> (Len(tierMessages[m].performed) >= n)

\* Two tiers without circular routing: a message rejected on the first
\* tier, requeued on the last and acknowledged on its third delivery.
C18_Witness ==
    /\ Len(tiers) = 2
    /\ ~circular
    /\ \E m \in TierMessages :
          /\ tierMessages[m].handledOn = <<1, 2, 2>>
          /\ tierMessages[m].performed = <<"reject", "requeue", "ack">>

\* How many entries of the sequence satisfy the test.
Count(seq, Test(_, _)) == Cardinality({p \in 1..Len(seq) : Test(seq, p)})

IsReject(performed, p) == performed[p] = "reject"

\* The message went down the tiers one by one and then stayed on the last.
DescendsToLastTier(m) ==
    LET r == tierMessages[m]
        FailedBeforeLast(outcomes, p) ==
            outcomes[p] = "failed" /\ r.handledOn[p] < Len(tiers)
    IN
    /\ r.phase \notin {"dropped", "acked"}
    /\ \A p \in 1..Len(r.handledOn) :
          r.handledOn[p] = (IF p < Len(tiers) THEN p ELSE Len(tiers))
    /\ r.phase = "queued" =>
          r.at = (IF Len(r.handledOn) < Len(tiers)
                  THEN Len(r.handledOn) + 1 ELSE Len(tiers))
    /\ Count(r.performed, IsReject) =
          Count(r.outcomes, FailedBeforeLast)
            - (IF r.phase = "delay" /\ r.at < Len(tiers) THEN 1 ELSE 0)

\* C19: with circular = false and a handler that always fails, a message
\* routed to tier 0 is handled on tiers 0, 1, ..., N-1 in that order, once
\* on each tier before the last, and then only on the last tier; it is never
\* dropped, never returns to an earlier tier, and its rejections toward a
\* next tier are as many as the handler's failures on tiers before the last
\* (one fewer while the delay of such a failure is running).
C19_FailingMessageDescends ==
    /\ []((~circular /\ handlerFails) =>
            \A m \in TierMessages : DescendsToLastTier(m))
    /\ \A m \in TierMessages :
          (~circular /\ handlerFails /\ tierMessages[m].phase = "queued")
              ~> \/ tierMessages[m].phase = "handling"
                       /\ tierMessages[m].at = Len(tiers)
                 \/ Len(tierMessages[m].handledOn) = MaxDeliveries

\* Three tiers, no circular routing, a handler that always fails: the
\* message went through the first two tiers and is on its second delivery
\* on the last one.
C19_Witness ==
    /\ Len(tiers) = 3
    /\ ~circular
    /\ handlerFails
    /\ \E m \in TierMessages :
          /\ tierMessages[m].handledOn = <<1, 2, 3, 3>>
          /\ tierMessages[m].performed = <<"reject", "reject", "requeue">>
          /\ tierMessages[m].phase = "handling"

\* The tier a message rejected on tier i falls through to.
NextTier(i) == IF i # LastTier THEN i + 1 ELSE 1

\* C40: whenever the subscription of a tier that rejects failed messages
\* is live, the queue of the next tier exists and is bound to the
\* dead-letter exchange with that tier's name, whatever the order in which
\* the broker answers the tiers' declarations; hence the firing of a reject
\* timer puts the message into the next tier's queue, and no message that
\* was handled is ever discarded as unroutable.
C40_RejectedIsRouted ==
    /\ [](\A i \in TierIndexes :
            (TierLive(i) /\ failureOperation(i) = "reject") =>
                /\ tierQueues[NextTier(i)].name = tierQueueName(NextTier(i))
                /\ [exchange |-> deadLetterExchange.name,
                    pattern |-> tiers[NextTier(i)].name]
                       \in tierQueues[NextTier(i)].binds)
    /\ [][\A m \in TierMessages :
             (tierMessages[m].phase = "delay" /\ tierMessages[m].timer.op = "reject"
                 /\ tierMessages'[m].phase # "delay") =>
                 /\ tierMessages'[m].phase = "queued"
                 /\ tierMessages'[m].at = NextTier(tierMessages[m].at)]_vars
    /\ [](\A m \in TierMessages :
            tierMessages[m].phase = "dropped" => tierMessages[m].performed = << >>)

\* The first tier rejected a message, which waits in the second tier's
\* queue, while declarations of the tiers are still unanswered.
C40_Witness ==
    /\ rpcs # <<>>
    /\ \E m \in TierMessages :
          /\ tierMessages[m].phase = "queued"
          /\ tierMessages[m].at = 2
          /\ tierMessages[m].performed = <<"reject">>

----------------------------------------------------------------------------
(***************************************************************************)
(* AMQPPublishStream (src/unnamed/part_013).                               *)
(*                                                                         *)
(* The class is a Writable in object mode whose only method is _write.     *)
(* Of Node.js' Writable the model keeps what _write depends on:            *)
(*   - write() counts the chunk in the stream's length, answers whether    *)
(*     the length is still below highWaterMark, and calls _write at once   *)
(*     when no other _write is waiting for its writeCallback; otherwise    *)
(*     the chunk is buffered;                                              *)
(*   - a writeCallback without error takes the chunk off the length,       *)
(*     calls _write for the buffered chunks, oldest first, until one of    *)
(*     them waits for its writeCallback, and emits 'drain' when write()    *)
(*     had answered false and the length is back to zero;                  *)
(*   - a writeCallback with an error makes the stream emit 'error'.  What  *)
(*     follows depends on the Node.js version, which the sources do not    *)
(*     fix: with autoDestroy (the default since Node.js 14) the stream is  *)
(*     destroyed, its buffered chunks are discarded and later writes are   *)
(*     refused; without it the stream stays writable, its buffered chunks  *)
(*     stay where they are and the next write() calls _write again.        *)
(* Of the ConfirmChannel it keeps that publish() throws on a closed        *)
(* channel, that the callback given to publish() is called once, when the  *)
(* broker confirms (acks or nacks) the message, in the order of the        *)
(* publishes, and that the callbacks still pending when the channel closes *)
(* are either called with an error or never called.                        *)
(*                                                                         *)
(* A string is a sequence of code points, a Buffer a sequence of bytes.    *)
(*                                                                         *)
(* Each write keeps a log of what happened to it, in order: "publish"      *)
(* (channel.publish returned), "confirm" and "confirmError" (the broker's  *)
(* confirm callback was entered without and with an error),                *)
(* "writeCallback" and "writeCallbackError" (writeCallback was called      *)
(* without and with an error) and "callback" (message.callback was         *)
(* called).                                                                *)
(***************************************************************************)
\* messages written to the stream during a run
MaxWrites == 3

Writes == 1..MaxWrites

\* options.highWaterMark || 8
DefaultHighWaterMark == 8

\* The values of options.highWaterMark a run starts with; 0 is no value.
HighWaterMarkOptions == {0, 1, 2}

highWaterMark(option) == IF option = 0 THEN DefaultHighWaterMark ELSE option

\* What is written: a value that is no object, an object without routing
\* key, an object without content, a well-formed message.
MessageKinds == {"notObject", "noRoutingKey", "noContent", "valid"}

\* message.exchange: missing, empty, the name of an exchange.
MessageExchanges == {NoSetting, "", NominalExchange}

\* message.content: the strings "A" and "Aé€", the empty string, and a
\* Buffer of bytes that are no UTF-8 text.
MessageContents ==
    { [type |-> "string", value |-> <<65>>],
      [type |-> "string", value |-> <<65, 233, 8364>>],
      [type |-> "string", value |-> << >>],
      [type |-> "buffer", value |-> <<0, 195, 255>>] }

NoContent == [type |-> "undefined", value |-> << >>]

\* Every message a producer may write.
Messages ==
    [kind : {"valid"}, exchange : MessageExchanges, routingKey : {"example"},
     content : MessageContents, callback : BOOLEAN]
    \cup [kind : {"noRoutingKey"}, exchange : {NominalExchange},
          routingKey : {NoSetting, ""}, content : {[type |-> "string", value |-> <<65>>]},
          callback : BOOLEAN]
    \cup [kind : {"noContent"}, exchange : {NominalExchange},
          routingKey : {"example"}, content : {NoContent}, callback : {FALSE}]
    \cup [kind : {"notObject"}, exchange : {NoSetting}, routingKey : {NoSetting},
          content : {NoContent}, callback : {FALSE}]

\* The messages of a producer that varies neither exchange nor content.
PlainMessages ==
    {m \in Messages :
        /\ m.exchange \in {NominalExchange, NoSetting}
        /\ m.kind = "valid" =>
              m.exchange = NominalExchange /\ m.content.value = <<65>>}

\* The messages of a producer that varies the exchange of one content and
\* the content without exchange, and gives its messages no callback.
VariedMessages ==
    {m \in Messages :
        /\ ~m.callback
        /\ m.kind \in {"valid", "noContent"}
        /\ m.kind = "valid" =>
              m.exchange = NoSetting \/ m.content.value = <<65, 233, 8364>>}

NoWrite == [kind |-> "none", callback |-> FALSE, phase |-> "unwritten",
            log |-> << >>, exchange |-> NoSetting, routingKey |-> NoSetting,
            content |-> NoContent, returned |-> "none"]

\* Buffer.from(string, 'utf-8'): the bytes of one code point.
Utf8OfCodePoint(c) ==
    IF c < 128 THEN <<c>>
    ELSE IF c < 2048 THEN <<192 + (c \div 64), 128 + (c % 64)>>
    ELSE <<224 + (c \div 4096), 128 + ((c \div 64) % 64), 128 + (c % 64)>>

RECURSIVE Utf8(_)
\* Buffer.from(string, 'utf-8').
Utf8(string) ==
    IF string = << >> THEN << >>
    ELSE Utf8OfCodePoint(Head(string)) \o Utf8(Tail(string))

\* A content handed to the channel as it is, whatever its type.
ContentUnencoded(content) == content.value

\* _write: Buffer.isBuffer(message.content) ? message.content
\*                                          : Buffer.from(message.content, 'utf-8')
ContentBuffer(content) ==
    IF content.type = "buffer" THEN content.value ELSE Utf8(content.value)

\* _write: message.exchange || ''
ExchangeOf(message) ==
    IF message.exchange \in {NoSetting, ""} THEN "" ELSE message.exchange

\* A validation that lets every object through.
VerifiedIfObject(message) == message.kind # "notObject"

\* The validation of _write: the message passes.
Verified(message) ==
    /\ message.kind # "notObject"
    /\ message.content.type \in {"string", "buffer"}
    /\ message.routingKey \notin {NoSetting, ""}

\* A publish that reports success without waiting for the confirm.
PublishedUnconfirmed(log, callback) ==
    log \o <<"publish", "writeCallback">>
        \o (IF callback THEN <<"callback">> ELSE << >>)

\* _write: channel.publish(exchange, routingKey, content, options,
\* publishCallback) returned.
Published(log, callback) == Append(log, "publish")

\* publishCallback: what the confirm callback does.
Confirmed(log, callback, publishError) ==
    IF publishError
    THEN log \o <<"confirmError", "writeCallbackError">>
    ELSE log \o <<"confirm", "writeCallback">>
             \o (IF callback THEN <<"callback">> ELSE << >>)

\* writeCallback was called with an error.
Failed(log) == \E p \in 1..Len(log) : log[p] = "writeCallbackError"

\* writeCallback was called.
Completed(log) ==
    \E p \in 1..Len(log) : log[p] \in {"writeCallback", "writeCallbackError"}

\* The stream, its writes and its channel as one value.
StreamState == [writes |-> writes, stream |-> stream, channel |-> confirmChannel]

\* The Writable after a writeCallback: the chunk is off the length; an error
\* is emitted and, with autoDestroy, destroys the stream and discards what
\* it had buffered.
Settled(S, w, er) ==
    LET counted == [S.stream EXCEPT
                        !.writing = IF @ = w THEN Null ELSE @,
                        !.length = IF @ > 0 THEN @ - 1 ELSE 0]
    IN
    IF ~er THEN [S EXCEPT !.stream = counted]
    ELSE IF ~counted.autoDestroy
    THEN [S EXCEPT !.stream = [counted EXCEPT !.errors = @ + 1]]
    ELSE [S EXCEPT
            !.stream = [counted EXCEPT !.errors = @ + 1, !.destroyed = TRUE,
                                       !.buffer = << >>, !.length = 0],
            !.writes = [v \in Writes |->
                IF \E p \in 1..Len(counted.buffer) : counted.buffer[p] = v
                THEN [S.writes[v] EXCEPT !.phase = "discarded"]
                ELSE S.writes[v]]]

\* publish() returns on an open channel and throws on a closed one.
Publishable(channel) == channel.open

\* _write(message, _encoding, writeCallback), with what the Writable does
\* when writeCallback is called before _write returns.
AMQPPublishStream_write(S, w) ==
    LET message == S.writes[w] IN
    IF ~Verified(message) \/ ~Publishable(S.channel)
    THEN \* messageVerificationError, or publish() threw
         Settled([S EXCEPT !.writes[w].phase = "done",
                           !.writes[w].log = Append(@, "writeCallbackError")],
                 w, TRUE)
    ELSE LET log == Published(message.log, message.callback)
             published ==
                [S EXCEPT
                    !.writes[w].phase = IF Completed(log) THEN "done"
                                        ELSE "published",
                    !.writes[w].log = log,
                    !.stream.writing = w,
                    !.channel.unconfirmed = Append(@, w),
                    !.channel.publishes = Append(@,
                        [write |-> w,
                         exchange |-> ExchangeOf(message),
                         routingKey |-> message.routingKey,
                         content |-> ContentBuffer(message.content)])]
         IN  IF Completed(log) THEN Settled(published, w, Failed(log))
             ELSE published

RECURSIVE clearBuffer(_)
\* The Writable calls _write for its buffered chunks, oldest first, until
\* one of them waits for its writeCallback.
clearBuffer(S) ==
    IF S.stream.buffer = << >> \/ S.stream.writing # Null \/ S.stream.destroyed
    THEN S
    ELSE clearBuffer(AMQPPublishStream_write(
            [S EXCEPT !.stream.buffer = Tail(@)], Head(S.stream.buffer)))

\* The Writable emits 'drain' when write() had answered false and nothing
\* written is left.
Drained(S) ==
    IF S.stream.needDrain /\ S.stream.length = 0 /\ ~S.stream.destroyed
    THEN [S EXCEPT !.stream.needDrain = FALSE, !.stream.drains = @ + 1]
    ELSE S

\* The Writable after a writeCallback without error.
AfterWrite(S) == Drained(clearBuffer(S))

\* write() answering that there is room, whatever the length.
AlwaysRoom(length, mark) == TRUE

\* write(): the answer, from the length that counts the chunk.
HasRoom(length, mark) == length < mark

\* stream.write(message, callback): the messages are numbered in the order
\* they are written.
write(S, w, message) ==
    IF S.stream.destroyed
    THEN [S EXCEPT !.writes[w] =
            [NoWrite EXCEPT !.kind = message.kind, !.phase = "refused",
                            !.returned = "refused"]]
    ELSE LET room == HasRoom(S.stream.length + 1, S.stream.highWaterMark)
             accepted ==
                [S EXCEPT
                    !.writes[w] =
                        [kind |-> message.kind, callback |-> message.callback,
                         phase |-> "buffered", log |-> << >>,
                         exchange |-> message.exchange,
                         routingKey |-> message.routingKey,
                         content |-> message.content,
                         returned |-> IF room THEN "room" ELSE "full"],
                    !.stream.length = @ + 1,
                    !.stream.needDrain = @ \/ ~room]
         IN  IF accepted.stream.writing # Null
             THEN [accepted EXCEPT !.stream.buffer = Append(@, w)]
             ELSE LET written == AMQPPublishStream_write(accepted, w) IN
                  IF Completed(written.writes[w].log)
                        /\ ~Failed(written.writes[w].log)
                  THEN AfterWrite(written)
                  ELSE written

\* The state S becomes the next state.
Becomes(S) ==
    /\ writes' = S.writes
    /\ stream' = S.stream
    /\ confirmChannel' = S.channel

\* The producer writes its next message.
StreamWrite(w, message) ==
    /\ writes[w].phase = "unwritten"
    /\ \A v \in Writes : v < w => writes[v].phase # "unwritten"
    /\ Becomes(write(StreamState, w, message))

\* publishCallback(publishError): the confirm of the oldest unconfirmed
\* publish arrives, or its callback is failed by the closing channel.
publishCallback(w, publishError) ==
    /\ confirmChannel.unconfirmed # << >>
    /\ Head(confirmChannel.unconfirmed) = w
    /\ ~confirmChannel.open => publishError
    /\ LET log == Confirmed(writes[w].log, writes[w].callback, publishError)
           called == [StreamState EXCEPT
                        !.writes[w].phase = "done",
                        !.writes[w].log = log,
                        !.channel.unconfirmed = Tail(@)]
           settled == Settled(called, w, publishError)
       IN  Becomes(IF publishError THEN settled ELSE AfterWrite(settled))

\* The channel closes; the callbacks of its unconfirmed publishes are kept,
\* to be called with an error, or dropped.
ConfirmChannelCloses(keep) ==
    /\ confirmChannel.open
    /\ confirmChannel' =
          [confirmChannel EXCEPT
              !.open = FALSE,
              !.unconfirmed = IF keep THEN @ ELSE << >>]
    /\ UNCHANGED <<writes, stream>>

\* The Writable of new AMQPPublishStream(channel, options).
NewStream(option, autoDestroy, pool) ==
    [highWaterMark |-> highWaterMark(option), autoDestroy |-> autoDestroy,
     pool |-> pool, buffer |-> << >>, writing |-> Null, length |-> 0,
     needDrain |-> FALSE, drains |-> 0, errors |-> 0, destroyed |-> FALSE]

\* new AMQPPublishStream(channel, options) on an open ConfirmChannel, for a
\* producer of plain messages.
StreamInit ==
    /\ writes = [w \in Writes |-> NoWrite]
    /\ \E option \in HighWaterMarkOptions : \E autoDestroy \in BOOLEAN :
          stream = NewStream(option, autoDestroy, PlainMessages)
    /\ confirmChannel = [open |-> TRUE, unconfirmed |-> << >>, publishes |-> << >>]

\* new AMQPPublishStream(channel) on an open ConfirmChannel, for a producer
\* that varies exchange and content.
StreamInitAnyMessage ==
    /\ writes = [w \in Writes |-> NoWrite]
    /\ \E autoDestroy \in BOOLEAN :
          stream = NewStream(0, autoDestroy, VariedMessages)
    /\ confirmChannel = [open |-> TRUE, unconfirmed |-> << >>, publishes |-> << >>]

StreamOnly == UNCHANGED <<connVars, mgrVars, consVars, lisVars, tierVars, emVars>>

StreamNext ==
    \/ \E w \in Writes : \E message \in stream.pool :
          StreamWrite(w, message) /\ StreamOnly
    \/ \E w \in Writes : \E publishError \in BOOLEAN :
          publishCallback(w, publishError) /\ StreamOnly
    \/ \E keep \in BOOLEAN : ConfirmChannelCloses(keep) /\ StreamOnly

----------------------------------------------------------------------------
(***************************************************************************)
(* Properties of the AMQPPublishStream.                                    *)
(***************************************************************************)
IsCompletion(log, p) == log[p] \in {"writeCallback", "writeCallbackError"}
IsOwnCallback(log, p) == log[p] = "callback"
IsConfirm(log, p) == log[p] \in {"confirm", "confirmError"}
IsPublish(log, p) == log[p] = "publish"

\* The entry at p comes after an entry of the log that passes the test.
After(log, p, Test(_, _)) == \E q \in 1..(p - 1) : Test(log, q)

\* writeCallback and message.callback were each called at most once.
AtMostOnce(log) ==
    /\ Count(log, IsCompletion) <= 1
    /\ Count(log, IsOwnCallback) <= 1

\* A success is reported, and message.callback called, only after a confirm
\* without error.
SuccessAfterConfirm(log) ==
    \A p \in 1..Len(log) :
        /\ log[p] = "writeCallback" => (p > 1 /\ log[p - 1] = "confirm")
        /\ log[p] = "callback" => (p > 1 /\ log[p - 1] = "writeCallback")

AcceptedUnconfirmed ==
    Cardinality({w \in Writes : writes[w].phase \in {"buffered", "published"}})

\* The step is write() of message w on a stream that is not destroyed.
Writing(w) ==
    /\ writes[w].phase = "unwritten"
    /\ writes'[w].phase # "unwritten"
    /\ ~stream.destroyed

\* write() answers false exactly when, counting the message, highWaterMark
\* or more accepted writes are unconfirmed; 'drain' is emitted only after
\* such an answer and when no accepted write is left unconfirmed, and then
\* at once.
BackPressure ==
    /\ [][\A w \in Writes : Writing(w) =>
            writes'[w].returned =
                IF AcceptedUnconfirmed + 1 >= stream.highWaterMark
                THEN "full" ELSE "room"]_vars
    /\ [][stream'.drains # stream.drains =>
            /\ stream'.drains = stream.drains + 1
            /\ stream.needDrain /\ ~stream'.needDrain
            /\ \A w \in Writes : writes'[w].phase \notin {"buffered", "published"}]_vars
    /\ []((stream.needDrain /\ stream.errors = 0) => AcceptedUnconfirmed > 0)

\* C21 as stated: up to highWaterMark published messages await the broker's
\* confirmation at the same time, so that an accepted message is held back
\* unpublished only while highWaterMark published messages are unconfirmed;
\* write() answers false once highWaterMark accepted writes are unconfirmed
\* and the stream signals readiness again when the confirmations drain.
C21_UpToHighWaterMarkAwaitConfirm ==
    /\ []((stream.errors = 0 /\ confirmChannel.open
             /\ \E w \in Writes : writes[w].phase = "buffered")
            => Len(confirmChannel.unconfirmed) >= stream.highWaterMark)
    /\ [](Len(confirmChannel.unconfirmed) <= stream.highWaterMark)
    /\ BackPressure

\* C21, amended: at most one published message awaits the broker's
\* confirmation at a time, the other accepted messages waiting unpublished
\* in the stream; write() answers false once highWaterMark accepted writes,
\* published or not, are unconfirmed, and the stream signals readiness
\* again when none is left.
C21_OneAwaitsConfirm ==
    /\ [](Len(confirmChannel.unconfirmed) <= 1)
    /\ [](\A w \in Writes : writes[w].phase = "published" =>
             confirmChannel.unconfirmed = <<w>> \/ ~confirmChannel.open)
    /\ BackPressure

\* highWaterMark is 2: the second write was answered false while the first
\* awaited its confirm, and both confirms made the stream emit 'drain'.
C21_Witness ==
    /\ stream.highWaterMark = 2
    /\ writes[1].returned = "room"
    /\ writes[2].returned = "full"
    /\ writes[2].log = <<"publish", "confirm", "writeCallback">>
    /\ stream.drains = 1

\* The message of write w is no object, or has no routing key or an empty
\* one.
Malformed(w) ==
    /\ writes[w].phase \notin {"unwritten", "refused"}
    /\ \/ writes[w].kind = "notObject"
       \/ writes[w].routingKey \in {NoSetting, ""}

\* The channel was asked to publish the message of write w.
PublishIssued(w) ==
    \E p \in 1..Len(confirmChannel.publishes) :
        confirmChannel.publishes[p].write = w

\* C22: a write whose message is not an object, or whose routingKey is
\* missing or empty, is reported as an error through the write callback,
\* before write() returns when no other write is in progress and otherwise
\* as soon as the writes before it are completed, and no publish is issued
\* on the channel for it.
C22_MalformedWriteFails ==
    /\ [](\A w \in Writes : Malformed(w) =>
            /\ ~PublishIssued(w)
            /\ writes[w].log \in {<< >>, <<"writeCallbackError">>}
            /\ writes[w].log = << >> =>
                  \/ writes[w].phase = "discarded"
                  \/ writes[w].phase = "buffered"
                       /\ (stream.writing # Null \/ stream.errors > 0))
    /\ [][\A w \in Writes :
            (Writing(w) /\ stream.writing = Null
                /\ (writes'[w].kind = "notObject"
                      \/ writes'[w].routingKey \in {NoSetting, ""}))
            => /\ writes'[w].log = <<"writeCallbackError">>
               /\ confirmChannel'.publishes = confirmChannel.publishes
               /\ stream'.errors = stream.errors + 1]_vars

\* A message with an empty routing key, written behind one that awaited its
\* confirm, failed when its turn came, and only the first was published.
C22_Witness ==
    /\ confirmChannel.open
    /\ writes[1].log = <<"publish", "confirm", "writeCallback">>
    /\ writes[2].kind = "noRoutingKey"
    /\ writes[2].routingKey = ""
    /\ writes[2].log = <<"writeCallbackError">>
    /\ Len(confirmChannel.publishes) = 1
    /\ stream.errors = 1

\* channel.publish threw, or a confirm callback reported an error.
PublishFailed ==
    \E w \in Writes : writes[w].kind = "valid" /\ Failed(writes[w].log)

\* C23: when channel.publish throws or the confirm callback reports an
\* error, the error reaches that write's callback and the stream emits
\* 'error'; after this first error the stream is terminal: it issues no
\* further publish on the channel and does not recover by itself.
C23_FirstErrorIsTerminal ==
    /\ [](\A w \in Writes :
            (writes[w].kind = "valid" /\ Failed(writes[w].log)) =>
                stream.errors >= 1)
    /\ [][\A w \in Writes :
            (writes[w].kind = "valid" /\ ~Failed(writes[w].log)
                /\ Failed(writes'[w].log))
            => stream'.errors = stream.errors + 1]_vars
    /\ [][PublishFailed =>
            /\ confirmChannel'.publishes = confirmChannel.publishes
            /\ \A w \in Writes :
                  writes'[w].log # writes[w].log => Failed(writes'[w].log)]_vars

RECURSIVE Utf8Decoded(_)
\* content.toString(): the code points of UTF-8 bytes, 65533 standing for
\* bytes that are no UTF-8.
Utf8Decoded(bytes) ==
    IF bytes = << >> THEN << >>
    ELSE LET b == Head(bytes) IN
         IF b < 128 THEN <<b>> \o Utf8Decoded(Tail(bytes))
         ELSE IF b >= 192 /\ b < 224 /\ Len(bytes) >= 2
         THEN <<(b - 192) * 64 + (bytes[2] - 128)>>
                  \o Utf8Decoded(SubSeq(bytes, 3, Len(bytes)))
         ELSE IF b >= 224 /\ b < 240 /\ Len(bytes) >= 3
         THEN <<(b - 224) * 4096 + (bytes[2] - 128) * 64 + (bytes[3] - 128)>>
                  \o Utf8Decoded(SubSeq(bytes, 4, Len(bytes)))
         ELSE <<65533>> \o Utf8Decoded(Tail(bytes))

\* C24: the publish issued for an accepted message has the message's routing
\* key, the exchange "" when the message's exchange is empty or missing and
\* the message's exchange otherwise, and as content the bytes of the
\* message's content: those of a Buffer unchanged, those of a string its
\* UTF-8 encoding, from which a consumer reads the string back.
C24_PublishArguments ==
    \A p \in 1..Len(confirmChannel.publishes) :
        LET published == confirmChannel.publishes[p]
            message == writes[published.write]
        IN
        /\ published.routingKey = message.routingKey
        /\ message.exchange \in {NoSetting, ""} => published.exchange = ""
        /\ message.exchange \notin {NoSetting, ""} =>
              published.exchange = message.exchange
        /\ \A i \in 1..Len(published.content) : published.content[i] \in 0..255
        /\ message.content.type = "buffer" =>
              published.content = message.content.value
        /\ message.content.type = "string" =>
              /\ Utf8Decoded(published.content) = message.content.value
              /\ message.content.value = <<65, 233, 8364>> =>
                    published.content = <<65, 195, 169, 226, 130, 172>>

\* The string "Aé€" written to an exchange and a Buffer written without
\* exchange were both published.
C24_Witness ==
    /\ Len(confirmChannel.publishes) = 2
    /\ writes[1].exchange = NominalExchange
    /\ writes[1].content = [type |-> "string", value |-> <<65, 233, 8364>>]
    /\ confirmChannel.publishes[1] =
          [write |-> 1, exchange |-> NominalExchange, routingKey |-> "example",
           content |-> <<65, 195, 169, 226, 130, 172>>]
    /\ writes[2].exchange = NoSetting
    /\ writes[2].content.type = "buffer"
    /\ confirmChannel.publishes[2] =
          [write |-> 2, exchange |-> "", routingKey |-> "example",
           content |-> <<0, 195, 255>>]

----------------------------------------------------------------------------
\* No AMQPPublishStream has been constructed.
NoPublishStream ==
    /\ writes = << >>
    /\ stream = << >>
    /\ confirmChannel = << >>

Init ==
    /\ ConnectorInit /\ ManagerInit /\ ConsumerInit /\ ListenerInit
    /\ NoTieredListener /\ NoPublishStream /\ NoHandlers

\* The connector and the channel manager take no consumer options.
InitNoConsumer == Init /\ prefetch = 0

SpecConnector == InitNoConsumer /\ [][ConnectorNext]_vars


\* The event loop runs every setImmediate callback and every timer that
\* stays scheduled, amqplib settles every connection attempt, and a close()
\* that was called completes with 'close'.
ConnectorFairness ==
    /\ WF_vars(ConnectorDispatch /\ ConnectorOnly)
    /\ WF_vars(\E t \in timers : ReconnectTimerFires(t) /\ ConnectorOnly)
    /\ WF_vars((ConnectResolved \/ ConnectRejected) /\ ConnectorOnly)
    /\ \A c \in Connections :
          WF_vars(conns[c].status = "closing" /\ ConnectionClose(c)
                     /\ ConnectorOnly)

SpecConnectorFair ==
    InitNoConsumer /\ [][ConnectorNext]_vars /\ ConnectorFairness
InitAnyURIs ==
    /\ ConnectorInitAnyURIs /\ ManagerInit /\ ConsumerInit /\ ListenerInit
    /\ prefetch = 0 /\ NoTieredListener /\ NoPublishStream /\ NoHandlers

SpecConnectorAnyURIs == InitAnyURIs /\ [][ConnectorNext]_vars

SpecConnectListeners == InitNoConsumer /\ [][ConnectListenersNext]_vars

InitNoURIs ==
    /\ ConnectorInitNoURIs /\ ManagerInit /\ ConsumerInit /\ ListenerInit
    /\ prefetch = 0 /\ NoTieredListener /\ NoPublishStream /\ NoHandlers

SpecConnectorNoURIs == InitNoURIs /\ [][ConnectorNext]_vars

SpecChannelManager == InitNoConsumer /\ [][ManagerNext]_vars


\* The event loop runs every setImmediate callback and every timer that
\* stays scheduled, the connection settles every channel creation, and a
\* close() that was called completes with 'close'.
ManagerFairness ==
    /\ WF_vars(ManagerDispatch /\ ManagerOnly)
    /\ WF_vars(\E t \in mgrTimers : RecreateTimerFires(t) /\ ManagerOnly)
    /\ WF_vars((CreateResolved \/ CreateRejected) /\ ManagerOnly)
    /\ \A ch \in Channels :
          WF_vars(channels[ch].status = "closing" /\ ChannelClose(ch)
                     /\ ManagerOnly)

SpecChannelManagerFair ==
    InitNoConsumer /\ [][ManagerNext]_vars /\ ManagerFairness
SpecConsumer == Init /\ [][ConsumerNext]_vars

SpecConsumerFair == Init /\ [][ConsumerNext]_vars /\ ConsumerFairness

InitEmitter ==
    /\ ConnectorInit /\ ManagerInit /\ ConsumerInit /\ ListenerInit
    /\ NoTieredListener /\ NoPublishStream
    /\ regs = [l \in Handlers |-> IF l = MessageHandler THEN "on" ELSE "none"]
    /\ calls = [l \in Handlers |-> <<>>]

SpecEmitter == InitEmitter /\ [][EmitterNext]_vars

SpecSharedChannel == Init /\ [][SharedChannelNext]_vars

SpecListenedConsumer == Init /\ [][ListenedNext]_vars /\ ListenedFairness

SpecListener == InitNoConsumer /\ [][ListenerNext]_vars

SpecListenerCancels == InitNoConsumer /\ [][ListenerCancelsNext]_vars

InitTiered ==
    /\ ConnectorInit /\ ManagerInit /\ ConsumerInit /\ ListenerInit
    /\ prefetch = 0 /\ TieredInit /\ NoPublishStream /\ NoHandlers

SpecTiered == InitTiered /\ [][TieredNext]_vars /\ TieredFairness

SpecTierChannel == InitTiered /\ [][TierChannelNext]_vars

InitStream ==
    /\ ConnectorInit /\ ManagerInit /\ ConsumerInit /\ ListenerInit
    /\ prefetch = 0 /\ NoTieredListener /\ StreamInit /\ NoHandlers

SpecPublishStream == InitStream /\ [][StreamNext]_vars

InitStreamAnyMessage ==
    /\ ConnectorInit /\ ManagerInit /\ ConsumerInit /\ ListenerInit
    /\ prefetch = 0 /\ NoTieredListener /\ StreamInitAnyMessage /\ NoHandlers

SpecPublishArguments == InitStreamAnyMessage /\ [][StreamNext]_vars

=============================================================================
